---- MODULE Spec2Model ----
(***************************************************************************)
(* State-machine model of the BIDS curation scripts of grmpy_opendata      *)
(* (src/curation/04_cubids_curation).                                      *)
(*                                                                         *)
(* A file name is a sequence of tokens ("sub-01", "_run-1", "_bold",       *)
(* ".nii", ".gz"): the entity tokens of the BIDS name and the dot-led      *)
(* pieces of its extension.  A path is a record [dir, name]: the           *)
(* directory parts below the dataset root (each part a token sequence)     *)
(* and the file name.  The file system `fs` is a function from the paths   *)
(* of the existing files to their contents; a directory exists when some   *)
(* file lies below it.                                                     *)
(***************************************************************************)
EXTENDS Integers, Sequences, FiniteSets, TLC

VARIABLES
    script,      \* which script's main() is running
    args,        \* the other parsed command-line arguments (a record; <<>> for none)
    dry_run,     \* the --dry-run flag of the current run
    run,         \* 1: first invocation, 2: second invocation on the resulting tree
    pc,          \* position in main()
    fs,          \* the dataset tree
    fs0,         \* the dataset tree before the first invocation
    warned,      \* warnings / error reports printed in the current run
    printed,     \* planned operations printed in the current run
    writes,      \* paths written (created, rewritten, moved to) in the current run
    walk,        \* remove_run: rglob order of the files that carry a run token
    core_plans,  \* remove_run: compute_rename_plans' result
    all_plans,   \* remove_run: core plans expanded with sidecar plans
    applied,     \* remove_run: renames performed, with whether the destination existed
    rel_map,     \* remove_run: build_intendedfor_mapping's result
    upd_log,     \* remove_run: per fmap JSON, what update_intendedfor_in_json did
    dry_report,  \* remove_run: what the first (dry) run reported
    todo,        \* per-file scripts: the files main() has still to process
    results,     \* per-file scripts: file -> what processing it returned
    report       \* per-file scripts: the lines of the report or summary written

vars == <<script, args, dry_run, run, pc, fs, fs0, warned, printed, writes,
          walk, core_plans, all_plans, applied, rel_map, upd_log, dry_report,
          todo, results, report>>

rrVars == <<walk, core_plans, all_plans, applied, rel_map, upd_log, dry_report>>

fileVars == <<todo, results, report>>

(***************************************************************************)
(* Bounds of the model.                                                    *)
(***************************************************************************)
MaxIF == 2            \* longest IntendedFor list of an initial fieldmap JSON

(***************************************************************************)
(* Generic helpers.                                                        *)
(***************************************************************************)
MaxOf(S) == CHOOSE x \in S : \A y \in S : y <= x

Range(s) == {s[i] : i \in DOMAIN s}

EndsWith(s, e) ==
    /\ Len(s) >= Len(e)
    /\ SubSeq(s, Len(s) - Len(e) + 1, Len(s)) = e

DropLast(s, n) == SubSeq(s, 1, Len(s) - n)

SeqsUpTo(S, n) == UNION {[1..k -> S] : k \in 0..n}

Perms(S) ==
    {w \in [1..Cardinality(S) -> S] : \A i, j \in DOMAIN w : w[i] = w[j] => i = j}

None == <<>>          \* Python's None for an optional path part

\* Python's None where a relative path is expected.
NoRel == [dir |-> <<>>, name |-> <<>>]

(***************************************************************************)
(* The file system.                                                        *)
(***************************************************************************)
Exists(f, p) == p \in DOMAIN f

\* Path.rename(dst) (POSIX rename(2)): dst is replaced when it exists.
Move(f, src, dst) ==
    [p \in (DOMAIN f \ {src}) \cup {dst} |-> IF p = dst THEN f[src] ELSE f[p]]

with_name(p, n) == [p EXCEPT !.name = n]

parts(p) == Append(p.dir, p.name)

\* Some directory at or below the dataset root is `d`.
IsDir(f, d) ==
    \E p \in DOMAIN f : Len(p.dir) >= Len(d) /\ SubSeq(p.dir, 1, Len(d)) = d

(***************************************************************************)
(* remove_run_and_fix_intendedfor.py                                       *)
(***************************************************************************)
\* RUN_TOKEN_RE = r"_run-\d+": the tokens it matches.
RunToks == {"_run-1", "_run-2"}

IsRunTok(t) == t \in RunToks

\* The tokens that begin with a dot.
DotToks == {".nii", ".gz", ".json", ".tsv", ".bval", ".bvec"}

\* Directory and name tokens beginning with "sub-" / "ses-".
SubPrefixed == {"sub-01"}
SesPrefixed == {"ses-01", "ses-02"}

NII == <<".nii">>
NIIGZ == <<".nii", ".gz">>
JSON == <<".json">>

\* name.rfind("."): index of the last dot-led token, 0 for -1.
rfind_dot(name) ==
    LET I == {i \in DOMAIN name : name[i] \in DotToks}
    IN  IF I = {} THEN 0 ELSE MaxOf(I)

split_name_suffix(name) ==
    IF EndsWith(name, NIIGZ) THEN <<DropLast(name, 2), NIIGZ>>
    ELSE IF EndsWith(name, NII) THEN <<DropLast(name, 1), NII>>
    ELSE LET dot == rfind_dot(name)
         IN  IF dot = 0 THEN <<name, <<>>>>
             ELSE <<SubSeq(name, 1, dot - 1), SubSeq(name, dot, Len(name))>>

\* RUN_TOKEN_RE.search(name)
RUN_TOKEN_RE_search(name) == \E i \in DOMAIN name : IsRunTok(name[i])

\* RUN_TOKEN_RE.sub("", stem)
RUN_TOKEN_RE_sub(stem) == SelectSeq(stem, LAMBDA t : ~IsRunTok(t))

\* str(name).endswith(".nii") or str(name).endswith(".nii.gz")
IsNifti(name) == EndsWith(name, NII) \/ EndsWith(name, NIIGZ)

StartsWithSub(part) == Len(part) > 0 /\ part[1] \in SubPrefixed
StartsWithSes(part) == Len(part) > 0 /\ part[1] \in SesPrefixed

\* The loop of subject_and_session_from_path over p.parts, from part i on.
RECURSIVE SubSesLoop(_, _, _, _)
SubSesLoop(ps, i, subject, session) ==
    IF i > Len(ps) THEN <<subject, session>>
    ELSE LET part == ps[i]
             sub1 == IF StartsWithSub(part) THEN part ELSE subject
             ses1 == IF ~StartsWithSub(part) /\ StartsWithSes(part)
                     THEN part ELSE session
         IN  IF sub1 # None /\ ses1 # None THEN <<sub1, ses1>>
             ELSE SubSesLoop(ps, i + 1, sub1, ses1)

\* <<subject, session>>; subject = None stands for the function returning None.
subject_and_session_from_path(p) == SubSesLoop(parts(p), 1, None, None)

\* The destination compute_rename_plans derives for src (lines 114-118).
RunlessName(name) ==
    LET sp == split_name_suffix(name)
    IN  RUN_TOKEN_RE_sub(sp[1]) \o sp[2]

\* Line 121: the destination exists or is claimed by an earlier plan.
PlanCollides(f, dst, planned_dsts) == Exists(f, dst) \/ dst \in planned_dsts

\* compute_rename_plans' loop over the traversal w, from position i on.
RECURSIVE PlanLoop(_, _, _, _, _, _)
PlanLoop(f, w, i, plans, planned_dsts, warns) ==
    IF i > Len(w) THEN [plans |-> plans, warns |-> warns]
    ELSE LET src == w[i]
             sp == split_name_suffix(src.name)
             dst == with_name(src, RunlessName(src.name))
         IN  IF ~RUN_TOKEN_RE_search(src.name) \/ RUN_TOKEN_RE_sub(sp[1]) = sp[1]
             THEN PlanLoop(f, w, i + 1, plans, planned_dsts, warns)
             ELSE IF PlanCollides(f, dst, planned_dsts)
             THEN PlanLoop(f, w, i + 1, plans, planned_dsts,
                           warns \cup {[kind |-> "plan-collision", src |-> src, dst |-> dst]})
             ELSE PlanLoop(f, w, i + 1, Append(plans, [src |-> src, dst |-> dst]),
                           planned_dsts \cup {dst}, warns)

compute_rename_plans(f, w) == PlanLoop(f, w, 1, <<>>, {}, {})

SidecarExts == <<JSON, <<".tsv">>, <<".tsv", ".gz">>, <<".bval">>, <<".bvec">>>>

sidecars_for_plan(f, plan) ==
    IF ~IsNifti(plan.src.name) THEN <<>>
    ELSE LET src_stem == split_name_suffix(plan.src.name)[1]
             dst_stem == split_name_suffix(plan.dst.name)[1]
             cand == [k \in DOMAIN SidecarExts |->
                        [src |-> with_name(plan.src, src_stem \o SidecarExts[k]),
                         dst |-> with_name(plan.dst, dst_stem \o SidecarExts[k])]]
         IN  SelectSeq(cand, LAMBDA pl : Exists(f, pl.src))

\* main, lines 375-378.
RECURSIVE ExpandPlans(_, _, _)
ExpandPlans(f, plans, i) ==
    IF i > Len(plans) THEN <<>>
    ELSE <<plans[i]>> \o sidecars_for_plan(f, plans[i]) \o ExpandPlans(f, plans, i + 1)

\* apply_renames without its collision check.
DstExists_Unchecked(f, plan) == FALSE

\* Line 194: plan.dst.exists()
DstExists(f, plan) == Exists(f, plan.dst)

\* apply_renames' loop.  `crashed` is the uncaught FileNotFoundError of
\* Path.rename on a missing source, which ends the run.
RECURSIVE ApplyLoop(_, _, _, _)
ApplyLoop(f, plans, i, acc) ==
    IF i > Len(plans) THEN [acc EXCEPT !.fs = f]
    ELSE LET plan == plans[i]
             acc1 == [acc EXCEPT !.printed = @ \cup {plan}]
         IN  IF acc.dry THEN ApplyLoop(f, plans, i + 1, acc1)
             ELSE IF DstExists(f, plan)
             THEN ApplyLoop(f, plans, i + 1, [acc1 EXCEPT !.warned =
                                @ \cup {[kind |-> "apply-collision",
                                         src |-> plan.src, dst |-> plan.dst]}])
             ELSE IF ~Exists(f, plan.src)
             THEN [acc1 EXCEPT !.fs = f, !.crashed = TRUE]
             ELSE ApplyLoop(Move(f, plan.src, plan.dst), plans, i + 1,
                            [acc1 EXCEPT !.applied =
                                Append(@, [src |-> plan.src, dst |-> plan.dst,
                                           clobbered |-> Exists(f, plan.dst)])])

apply_renames(f, plans, dry) ==
    ApplyLoop(f, plans, 1,
              [fs |-> f, dry |-> dry, printed |-> {}, warned |-> {},
               applied |-> <<>>, crashed |-> FALSE])

\* The path of p relative to <root>/subject; NoRel when relative_to raises.
RelTo(p, subject) ==
    IF Len(p.dir) >= 1 /\ p.dir[1] = subject
    THEN [dir |-> Tail(p.dir), name |-> p.name]
    ELSE NoRel

AbsOf(subject, rel) == [dir |-> <<subject>> \o rel.dir, name |-> rel.name]

\* The plans that enter the map: NIfTI, with a subject, below <root>/subject.
MappedPlans(plans) ==
    {i \in DOMAIN plans :
        /\ IsNifti(plans[i].src.name)
        /\ subject_and_session_from_path(plans[i].src)[1] # None
        /\ RelTo(plans[i].src, subject_and_session_from_path(plans[i].src)[1]) # NoRel
        /\ RelTo(plans[i].dst, subject_and_session_from_path(plans[i].src)[1]) # NoRel}

build_intendedfor_mapping(plans) ==
    LET I == MappedPlans(plans)
        key(i) == RelTo(plans[i].src, subject_and_session_from_path(plans[i].src)[1])
        val(i) == RelTo(plans[i].dst, subject_and_session_from_path(plans[i].src)[1])
    IN  [k \in {key(i) : i \in I} |->
            val(MaxOf({i \in I : key(i) = k}))]

\* list_fmap_jsons_for_session
list_fmap_jsons_for_session(f, subject, session) ==
    LET fmap_dir == <<subject>> \o (IF session = None THEN <<>> ELSE <<session>>)
                    \o <<<<"fmap">>>>
    IN  {p \in DOMAIN f : p.dir = fmap_dir /\ EndsWith(p.name, JSON)}

\* ensure_list(data["IntendedFor"])
ensure_list(c) == IF c.isNull THEN <<>> ELSE c.IntendedFor

RECURSIVE UniqueLoop(_, _, _)
UniqueLoop(items, i, result) ==
    IF i > Len(items) THEN result
    ELSE IF items[i] \in Range(result) THEN UniqueLoop(items, i + 1, result)
    ELSE UniqueLoop(items, i + 1, Append(result, items[i]))

\* unique_preserve_order that keeps repeated entries.
unique_preserve_order_Keep(items) == items

unique_preserve_order(items) == UniqueLoop(items, 1, <<>>)

exists_after_renames(f, rel_path, subject, rmap) ==
    LET final_rel == IF rel_path \in DOMAIN rmap THEN rmap[rel_path] ELSE rel_path
    IN  Exists(f, AbsOf(subject, final_rel))

\* Lines 272-288: the loop over the original entries.
RECURSIVE IntendedForLoop(_, _, _, _, _, _)
IntendedForLoop(f, original, i, subject, rmap, acc) ==
    IF i > Len(original) THEN acc
    ELSE LET rel == original[i]
         IN  IF rel \in DOMAIN rmap
             THEN IntendedForLoop(f, original, i + 1, subject, rmap,
                    [updated |-> Append(acc.updated, rmap[rel]),
                     changes |-> IF rmap[rel] # rel
                                 THEN Append(acc.changes, <<rel, rmap[rel]>>)
                                 ELSE acc.changes])
             ELSE IF exists_after_renames(f, rel, subject, rmap)
             THEN IntendedForLoop(f, original, i + 1, subject, rmap,
                    [acc EXCEPT !.updated = Append(@, rel)])
             ELSE IntendedForLoop(f, original, i + 1, subject, rmap,
                    [acc EXCEPT !.changes = Append(@, <<rel, NoRel>>)])

\* update_intendedfor_in_json: what it reads, computes, prints and writes.
update_intendedfor_in_json(f, json_path, subject, rmap, dry) ==
    LET c == f[json_path]
        quiet == [read |-> c.ok, original |-> <<>>, updated |-> <<>>,
                  changed |-> FALSE, changes |-> <<>>, wrote |-> FALSE,
                  content |-> c, subject |-> subject]
    IN  IF ~c.ok THEN quiet
        ELSE IF ~c.has THEN quiet
        ELSE LET original == ensure_list(c)
                 r == IntendedForLoop(f, original, 1, subject, rmap,
                                      [updated |-> <<>>, changes |-> <<>>])
                 updated_unique == unique_preserve_order(r.updated)
             IN  IF updated_unique = original
                 THEN [quiet EXCEPT !.original = original, !.updated = updated_unique]
                 ELSE [read |-> TRUE, original |-> original,
                       updated |-> updated_unique, changed |-> TRUE,
                       changes |-> r.changes, wrote |-> ~dry,
                       content |-> IF dry THEN c
                                   ELSE [c EXCEPT !.IntendedFor = updated_unique,
                                                  !.isNull = FALSE, !.isStr = FALSE],
                       subject |-> subject]

\* rglob("sub-*/**/*.nii*")
MatchesSubNii(p) ==
    /\ \E i \in DOMAIN p.dir : StartsWithSub(p.dir[i])
    /\ \E i \in DOMAIN p.name : p.name[i] = ".nii"

\* The (subject, session) pairs update_all_fmap_intendedfor visits.
SubjectSessions(f) ==
    {ss \in {subject_and_session_from_path(p) : p \in {q \in DOMAIN f : MatchesSubNii(q)}} :
        ss[1] # None}

\* update_all_fmap_intendedfor: json path -> what was done to it.
update_all_fmap_intendedfor(f, rmap, dry) ==
    LET visit == {<<ss, j>> \in SubjectSessions(f) \X DOMAIN f :
                     j \in list_fmap_jsons_for_session(f, ss[1], ss[2])}
        subj(j) == (CHOOSE v \in visit : v[2] = j)[1][1]
    IN  [j \in {v[2] : v \in visit} |->
            update_intendedfor_in_json(f, j, subj(j), rmap, dry)]

(***************************************************************************)
(* Dataset trees remove_run_and_fix_intendedfor is started on: one         *)
(* subject, with or without a session directory, a func directory with a   *)
(* bold series (with run-1, run-2 or no run entity; image and JSON         *)
(* sidecar) and an fmap directory with up to two fieldmap JSONs.           *)
(***************************************************************************)
Sub == <<"sub-01">>
Ses == <<"ses-01">>

Layouts == {"ses", "noses"}

BaseDir(layout) == IF layout = "ses" THEN <<Sub, Ses>> ELSE <<Sub>>
DataDir(layout, datatype) == BaseDir(layout) \o <<<<datatype>>>>

BoldName(runtok, ext) ==
    <<"sub-01">> \o (IF runtok = "" THEN <<>> ELSE <<runtok>>) \o <<"_bold">> \o ext

FuncFiles(layout) ==
    {[dir |-> DataDir(layout, "func"), name |-> BoldName(r, e)] :
        r \in {""} \cup RunToks, e \in {NIIGZ, JSON}}

FmapJson1(layout) ==
    [dir |-> DataDir(layout, "fmap"), name |-> <<"sub-01", "_epi", ".json">>]
FmapJson2(layout) ==
    [dir |-> DataDir(layout, "fmap"), name |-> <<"sub-01", "_acq-2", "_epi", ".json">>]

\* Subject-relative IntendedFor entries: the run-1 image, its run-less name,
\* and an image that never exists.
EntryA(layout) == [dir |-> Tail(DataDir(layout, "func")), name |-> BoldName("_run-1", NIIGZ)]
EntryB(layout) == [dir |-> Tail(DataDir(layout, "func")), name |-> BoldName("", NIIGZ)]
EntryC(layout) ==
    [dir |-> Tail(DataDir(layout, "func")), name |-> <<"sub-01", "_missing", ".nii", ".gz">>]
Entries(layout) == {EntryA(layout), EntryB(layout), EntryC(layout)}

\* The content of a file that is not a fieldmap JSON.
Plain(p) ==
    [orig |-> p, ok |-> TRUE, has |-> FALSE, isNull |-> FALSE, isStr |-> FALSE,
     IntendedFor |-> <<>>]

\* The contents a fieldmap JSON can start with: malformed, no IntendedFor,
\* null, a list, a string.
JsonContents(p, layout) ==
    {[Plain(p) EXCEPT !.ok = FALSE], Plain(p), [Plain(p) EXCEPT !.has = TRUE, !.isNull = TRUE]}
    \cup {[Plain(p) EXCEPT !.has = TRUE, !.IntendedFor = l] : l \in SeqsUpTo(Entries(layout), MaxIF)}
    \cup {[Plain(p) EXCEPT !.has = TRUE, !.isStr = TRUE, !.IntendedFor = <<e>>] : e \in Entries(layout)}

Json2Options(layout) ==
    {<<>>, FmapJson2(layout) :> [Plain(FmapJson2(layout)) EXCEPT !.ok = FALSE]}

Tree(F, layout, c1, j2) == [p \in F |-> Plain(p)] @@ (FmapJson1(layout) :> c1) @@ j2

\* Every set of func files, with a fieldmap JSON that names the run-1 image
\* and the missing image, or is malformed.
RenameTrees(layout) ==
    {Tree(F, layout, c1, j2) :
        F \in SUBSET FuncFiles(layout),
        c1 \in {[Plain(FmapJson1(layout)) EXCEPT !.has = TRUE,
                    !.IntendedFor = <<EntryA(layout), EntryC(layout)>>],
                [Plain(FmapJson1(layout)) EXCEPT !.ok = FALSE]},
        j2 \in Json2Options(layout)}

\* Every fieldmap JSON content, with a func directory that holds only images.
IntendedForTrees(layout) ==
    {Tree(F, layout, c1, j2) :
        F \in SUBSET {p \in FuncFiles(layout) : IsNifti(p.name)},
        c1 \in JsonContents(FmapJson1(layout), layout),
        j2 \in Json2Options(layout)}

RRTrees == UNION {RenameTrees(layout) \cup IntendedForTrees(layout) : layout \in Layouts}

RRIdle ==
    /\ walk = <<>>
    /\ core_plans = <<>>
    /\ all_plans = <<>>
    /\ applied = <<>>
    /\ rel_map = <<>>
    /\ upd_log = <<>>
    /\ dry_report = [renames |-> {}, changes |-> {}]

FilesIdle ==
    /\ todo = {}
    /\ results = <<>>
    /\ report = {}

InitRR ==
    /\ script = "remove_run"
    /\ args \in {[is_dir |-> b] : b \in BOOLEAN}
    /\ dry_run \in BOOLEAN
    /\ run = 1
    /\ pc = "start"
    /\ fs \in (IF args.is_dir THEN RRTrees ELSE {<<>>})
    /\ fs0 = fs
    /\ warned = {}
    /\ printed = {}
    /\ writes = {}
    /\ RRIdle
    /\ FilesIdle

\* The files compute_rename_plans does not skip at line 111.
RunFiles(f) == {p \in DOMAIN f : RUN_TOKEN_RE_search(p.name)}

\* main, lines 365-378: the test of bids_dir (return 2), then
\* compute_rename_plans and the expansion with sidecars.
RR_Plan ==
    /\ script = "remove_run" /\ pc = "start"
    /\ IF ~args.is_dir
       THEN /\ warned' = {"Error: not a directory"}
            /\ pc' = "error"
            /\ UNCHANGED <<walk, core_plans, all_plans>>
       ELSE /\ \E w \in Perms(RunFiles(fs)) :
                 /\ run = 2 => w = walk
                 /\ walk' = w
                 /\ LET r == compute_rename_plans(fs, w)
                    IN  /\ core_plans' = r.plans
                        /\ all_plans' = ExpandPlans(fs, r.plans, 1)
                        /\ warned' = r.warns
            /\ pc' = "planned"
    /\ UNCHANGED <<script, args, dry_run, run, fs, fs0, printed, writes,
                   applied, rel_map, upd_log, dry_report, fileVars>>

\* apply_renames (main, line 381).
RR_Apply ==
    /\ script = "remove_run" /\ pc = "planned"
    /\ LET r == apply_renames(fs, all_plans, dry_run)
       IN  /\ fs' = r.fs
           /\ printed' = r.printed
           /\ warned' = warned \cup r.warned
           /\ applied' = r.applied
           /\ writes' = {r.applied[i].dst : i \in DOMAIN r.applied}
           /\ pc' = IF r.crashed THEN "crashed" ELSE "renamed"
    /\ UNCHANGED <<script, args, dry_run, run, fs0, walk, core_plans, all_plans,
                   rel_map, upd_log, dry_report, fileVars>>

\* build_intendedfor_mapping and update_all_fmap_intendedfor (main, lines 384-387).
RR_UpdateFmap ==
    /\ script = "remove_run" /\ pc = "renamed"
    /\ LET rmap == build_intendedfor_mapping(core_plans)
           log == update_all_fmap_intendedfor(fs, rmap, dry_run)
       IN  /\ rel_map' = rmap
           /\ upd_log' = log
           /\ fs' = [p \in DOMAIN fs |-> IF p \in DOMAIN log THEN log[p].content ELSE fs[p]]
           /\ writes' = writes \cup {j \in DOMAIN log : log[j].wrote}
           /\ warned' = warned \cup
                {[kind |-> "json-unreadable", src |-> j, dst |-> j] :
                    j \in {k \in DOMAIN log : ~log[k].read}}
    /\ pc' = "done"
    /\ UNCHANGED <<script, args, dry_run, run, fs0, printed, walk, core_plans,
                   all_plans, applied, dry_report, fileVars>>

\* The IntendedFor changes a run printed: <<json, old, new or NoRel>>.
PrintedChanges(log) ==
    UNION {{<<j, log[j].changes[i][1], log[j].changes[i][2]>> : i \in DOMAIN log[j].changes} :
            j \in {k \in DOMAIN log : log[k].changed}}

\* The operator runs the script again, for real, after a dry run.
RR_RunAgain ==
    /\ script = "remove_run" /\ pc = "done" /\ run = 1 /\ dry_run
    /\ dry_report' = [renames |-> printed, changes |-> PrintedChanges(upd_log)]
    /\ run' = 2
    /\ dry_run' = FALSE
    /\ pc' = "start"
    /\ warned' = {}
    /\ printed' = {}
    /\ writes' = {}
    /\ core_plans' = <<>>
    /\ all_plans' = <<>>
    /\ applied' = <<>>
    /\ rel_map' = <<>>
    /\ upd_log' = <<>>
    /\ UNCHANGED <<script, args, fs, fs0, walk, fileVars>>

NextRR == RR_Plan \/ RR_Apply \/ RR_UpdateFmap \/ RR_RunAgain

SpecRR == InitRR /\ [][NextRR]_vars

(***************************************************************************)
(* Claims about remove_run_and_fix_intendedfor.                            *)
(***************************************************************************)
AppliedPairs == {[src |-> applied[i].src, dst |-> applied[i].dst] : i \in DOMAIN applied}

Warned(kind, src, dst) == [kind |-> kind, src |-> src, dst |-> dst] \in warned

\* C1: no rename overwrites an existing file.  The run never aborts in
\* apply_renames; no performed rename had an existing destination, so every file
\* of the initial tree is still on disk; a run-token file whose destination
\* exists or is claimed by an earlier plan is warned about and not planned; and
\* after a real run every planned rename was either performed or skipped with a
\* warning because its destination existed.
C1_NoOverwrite ==
    /\ pc # "crashed"
    /\ \A i \in DOMAIN applied : ~applied[i].clobbered
    /\ \A p \in DOMAIN fs0 : \E q \in DOMAIN fs : fs[q].orig = p
    /\ pc # "start" =>
         \A p \in RunFiles(fs0) :
            LET dst == with_name(p, RunlessName(p.name))
            IN  \/ \E i \in DOMAIN core_plans :
                      core_plans[i] = [src |-> p, dst |-> dst]
                \/ /\ Warned("plan-collision", p, dst)
                   /\ \A i \in DOMAIN core_plans : core_plans[i].src # p
                   /\ \/ Exists(fs0, dst)
                      \/ \E i \in DOMAIN core_plans : core_plans[i].dst = dst
    /\ (pc \in {"renamed", "done"} /\ ~dry_run) =>
         \A i \in DOMAIN all_plans :
            \/ all_plans[i] \in AppliedPairs
            \/ Warned("apply-collision", all_plans[i].src, all_plans[i].dst)

\* C1 witness: a real run that skipped one rename while planning and another
\* while applying, and performed a third.
C1_Witness ==
    /\ pc = "done" /\ ~dry_run
    /\ \E w \in warned : w.kind = "plan-collision"
    /\ \E w \in warned : w.kind = "apply-collision"
    /\ applied # <<>>

\* The parseable fieldmap JSONs of the tree that carry IntendedFor.
FmapJsonsWithIntendedFor(f) ==
    {j \in DOMAIN f :
        /\ Len(j.dir) >= 2 /\ j.dir[Len(j.dir)] = <<"fmap">>
        /\ EndsWith(j.name, JSON)
        /\ f[j].ok /\ f[j].has}

\* C2 as stated: after a real run every IntendedFor entry of every fieldmap
\* JSON names a file that exists under the subject directory.
C2_EveryEntryExists ==
    (pc = "done" /\ ~dry_run) =>
        \A j \in FmapJsonsWithIntendedFor(fs) :
            \A i \in DOMAIN ensure_list(fs[j]) :
                Exists(fs, AbsOf(j.dir[1], ensure_list(fs[j])[i]))

\* C2 holds where the subject has a session directory and an image.
C2_HoldsWithSession ==
    (pc = "done" /\ ~dry_run) =>
        \A j \in FmapJsonsWithIntendedFor(fs) :
            (Len(j.dir) = 3 /\ \E p \in DOMAIN fs : IsNifti(p.name)) =>
                \A i \in DOMAIN ensure_list(fs[j]) :
                    Exists(fs, AbsOf(j.dir[1], ensure_list(fs[j])[i]))

\* The entry that stands for e in the new list, and whether e is kept.
C3_Image(e) == IF e \in DOMAIN rel_map THEN rel_map[e] ELSE e
C3_Kept(e, subject) == e \in DOMAIN rel_map \/ Exists(fs, AbsOf(subject, e))
C3_First(orig, subject, x) ==
    CHOOSE i \in DOMAIN orig :
        /\ C3_Kept(orig[i], subject) /\ C3_Image(orig[i]) = x
        /\ \A k \in 1..(i - 1) : ~(C3_Kept(orig[k], subject) /\ C3_Image(orig[k]) = x)

\* C3: the list update_intendedfor_in_json computes holds, without
\* repetition, exactly the mapped values of the mapped entries and the unmapped
\* entries whose file exists, in the order of their first occurrence in the
\* original list; and that list is what a real run stores when it differs from
\* the original.
C3_NewList ==
    \A j \in DOMAIN upd_log :
        LET r == upd_log[j]
        IN  (r.read /\ r.content.has) =>
              /\ \A a, b \in DOMAIN r.updated : r.updated[a] = r.updated[b] => a = b
              /\ Range(r.updated) =
                    {C3_Image(e) : e \in {x \in Range(r.original) : C3_Kept(x, r.subject)}}
              /\ \A a, b \in DOMAIN r.updated :
                    a < b => C3_First(r.original, r.subject, r.updated[a])
                             < C3_First(r.original, r.subject, r.updated[b])
              /\ r.changed = (r.updated # r.original)
              /\ (r.changed /\ ~dry_run) =>
                    /\ fs[j].IntendedFor = r.updated
                    /\ ~fs[j].isStr /\ ~fs[j].isNull

\* C3 witness: map {A: B}, IntendedFor [A, C] with C missing gives [B].
C3_Witness ==
    /\ pc = "done" /\ ~dry_run
    /\ \E j \in DOMAIN upd_log :
        /\ Len(upd_log[j].original) = 2
        /\ upd_log[j].original[1] \in DOMAIN rel_map
        /\ upd_log[j].original[2] \notin DOMAIN rel_map
        /\ ~Exists(fs, AbsOf(upd_log[j].subject, upd_log[j].original[2]))
        /\ upd_log[j].updated = <<rel_map[upd_log[j].original[1]]>>
        /\ fs[j].IntendedFor = upd_log[j].updated

\* C5 as stated: the renames and IntendedFor changes the dry run reported are
\* the ones the real run, started on the same tree, performs.
C5_DryReportsWhatRealDoes ==
    (run = 2 /\ pc = "done") =>
        /\ dry_report.renames = AppliedPairs
        /\ dry_report.changes = PrintedChanges(upd_log)

(***************************************************************************)
(* round_AcquisitionTime.py                                                *)
(*                                                                         *)
(* A Python string is a sequence of one-character strings.                 *)
(***************************************************************************)
Digits == <<"0", "1", "2", "3", "4", "5", "6", "7", "8", "9">>

IsDigit(c) == \E n \in DOMAIN Digits : Digits[n] = c
DigitVal(c) == (CHOOSE n \in DOMAIN Digits : Digits[n] = c) - 1
AllDigits(s) == \A i \in DOMAIN s : IsDigit(s[i])

\* int(s) for a string of digits.
RECURSIVE ToInt(_)
ToInt(s) == IF s = <<>> THEN 0 ELSE 10 * ToInt(DropLast(s, 1)) + DigitVal(s[Len(s)])

\* f"{n:02d}" for 0 <= n <= 99.
Fmt02d(n) == <<Digits[(n \div 10) + 1], Digits[(n % 10) + 1]>>

\* s.ljust(6, "0")
ljust6(s) == s \o [i \in 1..(6 - Len(s)) |-> "0"]

Whitespace == {" ", "\t", "\n"}

\* str.strip()
RECURSIVE strip(_)
strip(s) ==
    IF s = <<>> THEN s
    ELSE IF s[1] \in Whitespace THEN strip(Tail(s))
    ELSE IF s[Len(s)] \in Whitespace THEN strip(DropLast(s, 1))
    ELSE s

NoTime == [hour |-> -1, minute |-> -1, second |-> -1, microsecond |-> -1]

\* datetime.time(hour, minute, second, microsecond)
time(h, m, sec, us) == [hour |-> h, minute |-> m, second |-> sec, microsecond |-> us]

\* (?:\.(?P<f>\d{1,6}))?$
FracOk(q) == q = <<>> \/ (q[1] = "." /\ Len(q) \in 2..7 /\ AllDigits(Tail(q)))

\* (?::(?P<s>\d{2})(?:\.(?P<f>\d{1,6}))?)?$
SecondsOk(r) ==
    \/ r = <<>>
    \/ /\ Len(r) >= 3 /\ r[1] = ":" /\ AllDigits(SubSeq(r, 2, 3))
       /\ FracOk(SubSeq(r, 4, Len(r)))

\* Pattern 1, with the hour of L digits.
Match1(s, L) ==
    /\ Len(s) >= L + 3
    /\ AllDigits(SubSeq(s, 1, L))
    /\ s[L + 1] = ":"
    /\ AllDigits(SubSeq(s, L + 2, L + 3))
    /\ SecondsOk(SubSeq(s, L + 4, Len(s)))

\* Pattern 2: HHMMSS[.ffffff]
Match2(s) == Len(s) >= 6 /\ AllDigits(SubSeq(s, 1, 6)) /\ FracOk(SubSeq(s, 7, Len(s)))

\* int(micro_str.ljust(6, "0")) if micro_str else 0, for the text after the seconds.
Micro(q) == IF q = <<>> THEN 0 ELSE ToInt(ljust6(Tail(q)))

\* Lines 72-74 and 84-86.
CheckedTime(h, m, sec, us) ==
    IF ~(0 <= h /\ h <= 23 /\ 0 <= m /\ m <= 59 /\ 0 <= sec /\ sec <= 59) THEN NoTime
    ELSE time(h, m, sec, us)

parse_time_string(value) ==
    LET s == strip(value)
    IN  IF s = <<>> THEN NoTime
        ELSE IF \E L \in {1, 2} : Match1(s, L)
        THEN LET L == CHOOSE k \in {1, 2} : Match1(s, k)
                 r == SubSeq(s, L + 4, Len(s))
             IN  CheckedTime(ToInt(SubSeq(s, 1, L)), ToInt(SubSeq(s, L + 2, L + 3)),
                             IF r = <<>> THEN 0 ELSE ToInt(SubSeq(r, 2, 3)),
                             IF r = <<>> THEN 0 ELSE Micro(SubSeq(r, 4, Len(r))))
        ELSE IF Match2(s)
        THEN CheckedTime(ToInt(SubSeq(s, 1, 2)), ToInt(SubSeq(s, 3, 4)),
                         ToInt(SubSeq(s, 5, 6)), Micro(SubSeq(s, 7, Len(s))))
        ELSE NoTime

\* The offsets of lines 98-99 exceed TLC's 32-bit integers when counted in
\* microseconds, so an offset is the pair <<whole seconds, microseconds>> with
\* 0 <= microseconds < 1000000, and >= compares the pairs.
offset_us(t) == <<t.minute * 60 + t.second, t.microsecond>>
threshold_us == <<30 * 60, 0>>
AtLeast(a, b) == a[1] > b[1] \/ (a[1] = b[1] /\ a[2] >= b[2])

\* round_to_nearest_hour without the wrap at midnight.
round_to_nearest_hour_NoWrap(t) ==
    time(IF AtLeast(offset_us(t), threshold_us) THEN t.hour + 1 ELSE t.hour, 0, 0, 0)

round_to_nearest_hour(t) ==
    LET new_hour == IF AtLeast(offset_us(t), threshold_us)
                    THEN (t.hour + 1) % 24 ELSE t.hour
    IN  time(new_hour, 0, 0, 0)

format_time_hhmmss(t) ==
    Fmt02d(t.hour) \o <<":">> \o Fmt02d(t.minute) \o <<":">> \o Fmt02d(t.second)

\* Python's None where a string is expected.
NoStr == <<"<None>">>

\* process_json_file: the ProcessResult, the file's new content, whether it wrote.
process_json_file(f, json_path, dry) ==
    LET c == f[json_path]
        skip(present, before, reason) ==
            [result |-> [present |-> present, before |-> before, after |-> NoStr,
                         changed |-> FALSE, reason |-> reason,
                         parsed |-> NoTime, rounded |-> NoTime],
             content |-> c, wrote |-> FALSE]
    IN  IF ~c.ok THEN skip(FALSE, NoStr, "Failed to read JSON")
        ELSE IF ~c.isDict THEN skip(FALSE, NoStr, "Top-level JSON is not an object")
        ELSE IF ~c.has THEN skip(FALSE, NoStr, "No AcquisitionTime field")
        ELSE LET original_str == IF c.isNull THEN NoStr ELSE c.AcquisitionTime
                 parsed == parse_time_string(IF c.isNull THEN <<>> ELSE original_str)
             IN  IF parsed = NoTime THEN skip(TRUE, original_str, "Unrecognized time format")
                 ELSE LET rounded == round_to_nearest_hour(parsed)
                          rounded_str == format_time_hhmmss(rounded)
                          original_exact == parsed.minute = 0 /\ parsed.second = 0
                                            /\ parsed.microsecond = 0
                          will_change_content ==
                              \/ rounded.hour # parsed.hour
                              \/ parsed.minute # 0
                              \/ parsed.second # 0
                              \/ parsed.microsecond # 0
                      IN  [result |->
                              [present |-> TRUE, before |-> original_str,
                               after |-> IF will_change_content THEN rounded_str
                                         ELSE IF original_exact THEN original_str
                                         ELSE rounded_str,
                               changed |-> will_change_content, reason |-> "",
                               parsed |-> parsed, rounded |-> rounded],
                           content |-> IF will_change_content /\ ~dry
                                       THEN [c EXCEPT !.AcquisitionTime = rounded_str]
                                       ELSE c,
                           wrote |-> will_change_content /\ ~dry]

\* find_json_files: rglob("*.json")
find_json_files(f) == {p \in DOMAIN f : EndsWith(p.name, JSON)}

\* The detail lines of the report (main, lines 261-273).
ReportLines(res) ==
    {[file |-> p,
      line |-> IF res[p].after = NoStr THEN "SKIPPED"
               ELSE IF res[p].changed THEN "CHANGED" ELSE "",
      before |-> res[p].before, after |-> res[p].after] :
        p \in {q \in DOMAIN res : res[q].present}}

\* The AcquisitionTime strings of the initial sidecars.
Hours == {0, 9, 23, 24}
Minutes == {0, 29, 30, 59, 60}
Seconds == {0, 59}
Fracs == {<<>>, <<".", "0">>, <<".", "5">>, <<".", "9", "9", "9", "9", "9", "9">>}

TimeStrings ==
    {Fmt02d(h) \o <<":">> \o Fmt02d(m) \o <<":">> \o Fmt02d(sec) \o q :
        h \in Hours, m \in Minutes, sec \in Seconds, q \in Fracs}
    \cup {Fmt02d(h) \o Fmt02d(m) \o Fmt02d(sec) \o q :
        h \in Hours, m \in Minutes, sec \in Seconds, q \in Fracs}
    \cup {Fmt02d(h) \o <<":">> \o Fmt02d(m) : h \in Hours, m \in Minutes}
    \cup {<<Digits[h + 1], ":">> \o Fmt02d(m) : h \in {0, 9}, m \in Minutes}
    \cup {<<" ">> \o Fmt02d(h) \o <<":">> \o Fmt02d(m) \o <<":", "0", "0", "\n">> :
        h \in Hours, m \in Minutes}
    \cup {<<>>, <<"n", "/", "a">>, <<"1", "4", ":", "3">>, <<"1", "4", "3", "0">>,
          <<"1", "4", ":", "3", "0", ":", "0", "0", ".">>}

BoldJson == [dir |-> <<Sub, Ses, <<"func">>>>, name |-> <<"sub-01", "_ses-01", "_bold", ".json">>]
T1wJson == [dir |-> <<Sub, Ses, <<"anat">>>>, name |-> <<"sub-01", "_ses-01", "_T1w", ".json">>]

TimeSidecar(p, str) ==
    [orig |-> p, ok |-> TRUE, isDict |-> TRUE, has |-> TRUE, isNull |-> FALSE,
     AcquisitionTime |-> str]

RATContents(p) ==
    {[TimeSidecar(p, <<>>) EXCEPT !.ok = FALSE],
     [TimeSidecar(p, <<>>) EXCEPT !.isDict = FALSE],
     [TimeSidecar(p, <<>>) EXCEPT !.has = FALSE],
     [TimeSidecar(p, <<>>) EXCEPT !.isNull = TRUE]}
    \cup {TimeSidecar(p, str) : str \in TimeStrings}

RATTrees ==
    {(BoldJson :> c1) @@ j2 :
        c1 \in RATContents(BoldJson),
        j2 \in {<<>>, T1wJson :> [TimeSidecar(T1wJson, <<>>) EXCEPT !.ok = FALSE],
                T1wJson :> TimeSidecar(T1wJson, <<"1", "4", "4", "5", "1", "0">>)}}
    \cup {<<>>}

InitRAT ==
    /\ script = "round_AcquisitionTime"
    /\ args = <<>>
    /\ dry_run \in BOOLEAN
    /\ run = 1
    /\ pc = "start"
    /\ fs \in RATTrees
    /\ fs0 = fs
    /\ warned = {}
    /\ printed = {}
    /\ writes = {}
    /\ RRIdle
    /\ FilesIdle

\* main, lines 236-239.
RAT_Start ==
    /\ script = "round_AcquisitionTime" /\ pc = "start"
    /\ todo' = find_json_files(fs)
    /\ pc' = IF find_json_files(fs) = {} THEN "done" ELSE "loop"
    /\ UNCHANGED <<script, args, dry_run, run, fs, fs0, warned, printed, writes, rrVars,
                   results, report>>

\* main, lines 242-244: one iteration.
RAT_Process ==
    /\ script = "round_AcquisitionTime" /\ pc = "loop"
    /\ \E jp \in todo :
         LET r == process_json_file(fs, jp, dry_run)
         IN  /\ results' = (jp :> r.result) @@ results
             /\ fs' = [fs EXCEPT ![jp] = r.content]
             /\ writes' = IF r.wrote THEN writes \cup {jp} ELSE writes
             /\ todo' = todo \ {jp}
             /\ pc' = IF todo \ {jp} = {} THEN "report" ELSE "loop"
    /\ UNCHANGED <<script, args, dry_run, run, fs0, warned, printed, rrVars, report>>

\* main, lines 246-288: the report.
RAT_Report ==
    /\ script = "round_AcquisitionTime" /\ pc = "report"
    /\ report' = ReportLines(results)
    /\ pc' = "done"
    /\ UNCHANGED <<script, args, dry_run, run, fs, fs0, warned, printed, writes, rrVars,
                   todo, results>>

\* The operator runs a per-file script a second time on the resulting tree.
RunAgain ==
    /\ script # "remove_run" /\ pc = "done" /\ run = 1
    /\ run' = 2
    /\ pc' = "start"
    /\ warned' = {}
    /\ printed' = {}
    /\ writes' = {}
    /\ todo' = {}
    /\ results' = <<>>
    /\ report' = {}
    /\ UNCHANGED <<script, args, dry_run, fs, fs0, rrVars>>

NextRAT == RAT_Start \/ RAT_Process \/ RAT_Report \/ RunAgain

SpecRAT == InitRAT /\ [][NextRAT]_vars

\* ---------------------------------------------------------------------------
\* Properties of round_AcquisitionTime.py
\* ---------------------------------------------------------------------------

\* The sidecars of the initial tree whose AcquisitionTime is a parseable string.
HasTime(c) == c.ok /\ c.isDict /\ c.has
Parseable(c) == HasTime(c) /\ ~c.isNull /\ parse_time_string(c.AcquisitionTime) # NoTime

\* The hour the rule of the specification gives: the offset into the hour is
\* below 30 minutes exactly when the minute is below 30.
C9_ExpectedHour(t) == IF t.minute < 30 THEN t.hour ELSE (t.hour + 1) % 24

\* C9: round_to_nearest_hour returns HH:00:00 where HH is the input hour when
\* the offset into the hour is below 30 minutes and (hour + 1) modulo 24 when
\* it is 30 minutes or more, for every valid time the script has parsed.
C9_RoundRule ==
    \A p \in DOMAIN results :
        results[p].parsed # NoTime =>
            /\ results[p].rounded = time(C9_ExpectedHour(results[p].parsed), 0, 0, 0)
            /\ results[p].rounded.hour \in 0..23

\* C9 witness: a time of 23:30:00 or later has been rounded to 00:00:00.
C9_Witness ==
    \E p \in DOMAIN results :
        /\ results[p].parsed.hour = 23 /\ results[p].parsed.minute >= 30
        /\ results[p].rounded = time(0, 0, 0, 0)

\* C10: after a non-dry run every sidecar whose AcquisitionTime parses stores
\* the rounded time in the form HH:MM:SS, a file is written only if that
\* rounded value differs from its original value, and a file whose
\* AcquisitionTime cannot be parsed is unchanged and reported as skipped.
C10_StoredRounded ==
    (script = "round_AcquisitionTime" /\ pc = "done" /\ ~dry_run /\ run = 1) =>
        \A p \in DOMAIN fs0 :
            LET c0 == fs0[p]
                rounded_str == format_time_hhmmss(
                    round_to_nearest_hour(parse_time_string(c0.AcquisitionTime)))
            IN  /\ Parseable(c0) =>
                    /\ fs[p].AcquisitionTime = rounded_str
                    /\ p \in writes => rounded_str # c0.AcquisitionTime
                /\ (HasTime(c0) /\ ~Parseable(c0)) =>
                    /\ fs[p] = c0
                    /\ \E l \in report : l.file = p /\ l.line = "SKIPPED"

\* The part of C10 the code does satisfy: values off the hour are stored
\* rounded, and unparseable ones are unchanged and reported as skipped.
C10_OffTheHour ==
    (script = "round_AcquisitionTime" /\ pc = "done" /\ ~dry_run /\ run = 1) =>
        \A p \in DOMAIN fs0 :
            LET c0 == fs0[p]
                parsed == parse_time_string(c0.AcquisitionTime)
            IN  /\ (Parseable(c0) /\ (parsed.minute # 0 \/ parsed.second # 0
                                       \/ parsed.microsecond # 0)) =>
                    /\ fs[p].AcquisitionTime =
                           format_time_hhmmss(round_to_nearest_hour(parsed))
                    /\ p \in writes
                /\ (HasTime(c0) /\ ~Parseable(c0)) =>
                    /\ fs[p] = c0
                    /\ \E l \in report : l.file = p /\ l.line = "SKIPPED"

(***************************************************************************)
(* fix_run_rec_entities.py                                                 *)
(***************************************************************************)
\* The part that stands for the dataset root in an absolute path.
RootPart == <<"bids">>

\* The tokens that begin with "_rec-".
RecToks == {"_rec-norm"}

MinOf(S) == CHOOSE x \in S : \A y \in S : x <= y

\* is_anat_path, on the absolute path's parts.
is_anat_path(p) ==
    LET ps == <<RootPart>> \o parts(p)
        I == {i \in DOMAIN ps : ps[i] = <<"anat">>}
    IN  /\ I # {}
        /\ LET anat_idx == MinOf(I) - 1
           IN  /\ anat_idx >= 2
               /\ StartsWithSub(ps[anat_idx - 1])
               /\ StartsWithSes(ps[anat_idx])

\* split_name_suffix of fix_run_rec_entities.py (it also knows ".json").
frr_split_name_suffix(name) ==
    IF EndsWith(name, NIIGZ) THEN <<DropLast(name, 2), NIIGZ>>
    ELSE IF EndsWith(name, NII) THEN <<DropLast(name, 1), NII>>
    ELSE IF EndsWith(name, JSON) THEN <<DropLast(name, 1), JSON>>
    ELSE LET dot == rfind_dot(name)
         IN  IF dot = 0 THEN <<name, <<>>>>
             ELSE <<SubSeq(name, 1, dot - 1), SubSeq(name, dot, Len(name))>>

\* derive_sidecar_path; NoRel for None.
derive_sidecar_path(img_path) ==
    LET sp == frr_split_name_suffix(img_path.name)
    IN  IF sp[2] \notin {NII, NIIGZ} THEN NoRel
        ELSE with_name(img_path, sp[1] \o JSON)

\* reorder_run_rec; <<>> for None.  A token runs up to the next "_", that is
\* to the start of the next token.
reorder_run_rec(stem) ==
    LET R == {i \in DOMAIN stem : stem[i] \in RunToks}
        C == {i \in DOMAIN stem : stem[i] \in RecToks}
    IN  IF R = {} \/ C = {} THEN <<>>
        ELSE LET run_idx == MinOf(R)
                 rec_idx == MinOf(C)
             IN  IF rec_idx < run_idx THEN <<>>
                 ELSE SubSeq(stem, 1, run_idx - 1)
                      \o <<stem[rec_idx]>>
                      \o SubSeq(stem, run_idx + 1, rec_idx - 1)
                      \o <<stem[run_idx]>>
                      \o SubSeq(stem, rec_idx + 1, Len(stem))

\* bids_dir.rglob("*.nii*"): files whose name holds ".nii".
GlobNii(f) == {p \in DOMAIN f : \E i \in DOMAIN p.name : p.name[i] = ".nii"}

\* The RenamePlan plan_renames builds for one image (lines 130-151).
RenamePlan(f, img_path) ==
    LET sp == frr_split_name_suffix(img_path.name)
        sidecar_src == derive_sidecar_path(img_path)
        has_sidecar == sidecar_src # NoRel /\ Exists(f, sidecar_src)
        sc_stem == frr_split_name_suffix(sidecar_src.name)[1]
        sc_new_stem == IF reorder_run_rec(sc_stem) # <<>>
                       THEN reorder_run_rec(sc_stem) ELSE sc_stem
    IN  [src |-> img_path,
         dst |-> with_name(img_path, reorder_run_rec(sp[1]) \o sp[2]),
         sidecar_src |-> IF has_sidecar THEN sidecar_src ELSE NoRel,
         sidecar_dst |-> IF has_sidecar THEN with_name(sidecar_src, sc_new_stem \o JSON)
                         ELSE NoRel]

\* The images plan_renames keeps (lines 126-133).
Reorderable(f) ==
    {p \in GlobNii(f) :
        is_anat_path(p) /\ reorder_run_rec(frr_split_name_suffix(p.name)[1]) # <<>>}

\* plan_renames, for the order w in which rglob yields the kept images.
plan_renames(f, w) == [i \in DOMAIN w |-> RenamePlan(f, w[i])]

\* What apply_renames prints for a plan (lines 157-159).
PlanLines(plan) ==
    {[kind |-> "RENAME", src |-> plan.src, dst |-> plan.dst]}
    \cup (IF plan.sidecar_src # NoRel /\ plan.sidecar_dst # NoRel
          THEN {[kind |-> "RENAME", src |-> plan.sidecar_src, dst |-> plan.sidecar_dst]}
          ELSE {})

\* One iteration of apply_renames' loop when it does not `continue` at the
\* dry-run test (lines 157-159, 163-179).  Path.rename of a missing source
\* raises FileNotFoundError.
ApplyPlan(st, plan) ==
    LET img_skip == Exists(st.fs, plan.dst)
        img_fail == ~img_skip /\ ~Exists(st.fs, plan.src)
        f1 == IF img_skip \/ img_fail THEN st.fs ELSE Move(st.fs, plan.src, plan.dst)
        has_sc == ~img_fail /\ plan.sidecar_src # NoRel /\ plan.sidecar_dst # NoRel
        sc_skip == has_sc /\ Exists(f1, plan.sidecar_dst)
        sc_fail == has_sc /\ ~sc_skip /\ ~Exists(f1, plan.sidecar_src)
        sc_move == has_sc /\ ~sc_skip /\ ~sc_fail
        f2 == IF sc_move THEN Move(f1, plan.sidecar_src, plan.sidecar_dst) ELSE f1
    IN  [fs |-> f2,
         printed |-> st.printed \cup PlanLines(plan),
         warned |-> st.warned
            \cup (IF img_skip THEN {[kind |-> "skipping file", src |-> plan.src,
                                     dst |-> plan.dst]} ELSE {})
            \cup (IF sc_skip THEN {[kind |-> "skipping sidecar", src |-> plan.sidecar_src,
                                    dst |-> plan.sidecar_dst]} ELSE {}),
         writes |-> st.writes
            \cup (IF img_skip \/ img_fail THEN {} ELSE {plan.dst})
            \cup (IF sc_move THEN {plan.sidecar_dst} ELSE {}),
         crashed |-> img_fail \/ sc_fail]

\* apply_renames without its dry-run test.
frr_apply_renames_Undry(plans, st, dry) ==
    LET RECURSIVE Go(_, _)
        Go(k, s) ==
            IF k > Len(plans) \/ s.crashed THEN s
            ELSE Go(k + 1, ApplyPlan(s, plans[k]))
    IN  Go(1, st)

\* apply_renames of fix_run_rec_entities.py; st holds the tree and the output
\* so far.
frr_apply_renames(plans, st, dry) ==
    LET RECURSIVE Go(_, _)
        Go(k, s) ==
            IF k > Len(plans) \/ s.crashed THEN s
            ELSE IF dry
                 THEN Go(k + 1, [s EXCEPT !.printed = s.printed \cup PlanLines(plans[k])])
                 ELSE Go(k + 1, ApplyPlan(s, plans[k]))
    IN  Go(1, st)

\* The anat files of the initial trees.
AnatName(ents, ext) == <<"sub-01", "_ses-01">> \o ents \o <<"_T1w">> \o ext

AnatNames ==
    {AnatName(<<"_run-1", "_rec-norm">>, NIIGZ),
     AnatName(<<"_run-1", "_rec-norm">>, NII),
     AnatName(<<"_run-1", "_rec-norm">>, JSON),
     AnatName(<<"_rec-norm", "_run-1">>, NIIGZ),
     AnatName(<<"_rec-norm", "_run-1">>, JSON),
     AnatName(<<"_run-1", "_acq-hi", "_rec-norm">>, NIIGZ)}

FRRTrees ==
    UNION {{[p \in {[dir |-> DataDir(layout, "anat"), name |-> n] : n \in N} |-> Plain(p)] :
              N \in SUBSET AnatNames} : layout \in Layouts}

InitFRR ==
    /\ script = "fix_run_rec_entities"
    /\ args = <<>>
    /\ dry_run \in BOOLEAN
    /\ run = 1
    /\ pc = "start"
    /\ fs \in FRRTrees
    /\ fs0 = fs
    /\ warned = {}
    /\ printed = {}
    /\ writes = {}
    /\ RRIdle
    /\ todo = <<>>
    /\ results = <<>>
    /\ report = {}

\* main, lines 201-204: plan_renames, in any order rglob may yield the images.
FRR_Plan ==
    /\ script = "fix_run_rec_entities" /\ pc = "start"
    /\ \E w \in Perms(Reorderable(fs)) :
         /\ todo' = plan_renames(fs, w)
         /\ pc' = IF w = <<>> THEN "done" ELSE "planned"
    /\ UNCHANGED <<script, args, dry_run, run, fs, fs0, warned, printed, writes, rrVars,
                   results, report>>

\* main, lines 206-211: apply_renames.
FRR_Apply ==
    /\ script = "fix_run_rec_entities" /\ pc = "planned"
    /\ LET r == frr_apply_renames(todo,
                    [fs |-> fs, printed |-> printed, warned |-> warned,
                     writes |-> writes, crashed |-> FALSE], dry_run)
       IN  /\ fs' = r.fs
           /\ printed' = r.printed
           /\ warned' = r.warned
           /\ writes' = r.writes
           /\ pc' = IF r.crashed THEN "crashed" ELSE "done"
    /\ UNCHANGED <<script, args, dry_run, run, fs0, rrVars, todo, results, report>>

NextFRR == FRR_Plan \/ FRR_Apply \/ RunAgain

SpecFRR == InitFRR /\ [][NextFRR]_vars

(***************************************************************************)
(* set_background_suppression_true.py                                      *)
(*                                                                         *)
(* A JSON value is a record [t, b, s]: its type ("bool", "str", "num",     *)
(* "null"), its truth value when a boolean, its characters when a string.  *)
(***************************************************************************)
Bool(b) == [t |-> "bool", b |-> b, s |-> <<>>]
Str(chars) == [t |-> "str", b |-> FALSE, s |-> chars]
Num0 == [t |-> "num", b |-> FALSE, s |-> <<>>]
Null == [t |-> "null", b |-> FALSE, s |-> <<>>]

\* str.lower(), on the letters the model's strings hold.
LowerOf ==
    [c \in {"F", "A", "L", "S", "E", "T", "R", "U"} |->
        CASE c = "F" -> "f" [] c = "A" -> "a" [] c = "L" -> "l" [] c = "S" -> "s"
          [] c = "E" -> "e" [] c = "T" -> "t" [] c = "R" -> "r" [] c = "U" -> "u"]

lower(chars) ==
    [i \in DOMAIN chars |-> IF chars[i] \in DOMAIN LowerOf THEN LowerOf[chars[i]] ELSE chars[i]]

\* should_set_true comparing the string without strip().
should_set_true_NoStrip(value) ==
    IF value.t = "bool" THEN value.b = FALSE
    ELSE IF value.t = "str" THEN lower(value.s) = <<"f", "a", "l", "s", "e">>
    ELSE FALSE

should_set_true(value) ==
    IF value.t = "bool" THEN value.b = FALSE
    ELSE IF value.t = "str" THEN lower(strip(value.s)) = <<"f", "a", "l", "s", "e">>
    ELSE FALSE

AslJsonEnd == <<"_asl", ".json">>

\* iter_asl_json_files: rglob("*_asl.json") outside derivatives/, under perf/.
iter_asl_json_files(f) ==
    {p \in DOMAIN f :
        /\ EndsWith(p.name, AslJsonEnd)
        /\ \A i \in DOMAIN p.dir : p.dir[i] # <<"derivatives">>
        /\ \E i \in DOMAIN p.dir : p.dir[i] = <<"perf">>}

\* update_background_suppression: (changed, message), the file's content after
\* the call, whether it wrote, whether an exception escaped.  `"key" not in
\* data` is False for a list without the key and raises TypeError for a number.
update_background_suppression(f, json_path, dry) ==
    LET c == f[json_path]
        out(changed, message, content, wrote, crashed) ==
            [changed |-> changed, message |-> message, content |-> content,
             wrote |-> wrote, crashed |-> crashed]
    IN  IF c.top = "unreadable" THEN out(FALSE, "ERROR reading", c, FALSE, FALSE)
        ELSE IF c.top = "number" THEN out(FALSE, "TypeError", c, FALSE, TRUE)
        ELSE IF c.top = "list" \/ ~c.has
             THEN out(FALSE, "SKIP (missing field)", c, FALSE, FALSE)
        ELSE IF ~should_set_true(c.BackgroundSuppression)
             THEN out(FALSE, "SKIP (already true or non-false)", c, FALSE, FALSE)
        ELSE IF dry THEN out(TRUE, "DRY-RUN would update", c, FALSE, FALSE)
        ELSE out(TRUE, "UPDATED", [c EXCEPT !.BackgroundSuppression = Bool(TRUE)],
                 TRUE, FALSE)

\* The summary line of main (lines 113-121).
Summary(res) ==
    [changed |-> Cardinality({p \in DOMAIN res :
                    ~(res[p].message = "ERROR reading") /\ res[p].changed}),
     skipped |-> Cardinality({p \in DOMAIN res :
                    ~(res[p].message = "ERROR reading") /\ ~res[p].changed}),
     errors |-> Cardinality({p \in DOMAIN res : res[p].message = "ERROR reading"})]

\* The ASL sidecars of the initial trees.
AslName(runtok, ext) == <<"sub-01", "_ses-01", runtok, "_asl">> \o ext

AslJson1 == [dir |-> DataDir("ses", "perf"), name |-> AslName("_run-1", JSON)]
AslJson2 == [dir |-> DataDir("ses", "perf"), name |-> AslName("_run-2", JSON)]
AslJsonFunc == [dir |-> DataDir("ses", "func"), name |-> AslName("_run-1", JSON)]
AslJsonDeriv ==
    [dir |-> <<<<"derivatives">>>> \o DataDir("ses", "perf"), name |-> AslName("_run-1", JSON)]

BSDict(p, has, value) ==
    [orig |-> p, top |-> "dict", has |-> has, BackgroundSuppression |-> value]

BSValues ==
    {Bool(FALSE), Bool(TRUE), Num0, Null,
     Str(<<"f", "a", "l", "s", "e">>), Str(<<"F", "a", "l", "s", "e">>),
     Str(<<" ", "F", "A", "L", "S", "E", "\n">>), Str(<<"t", "r", "u", "e">>),
     Str(<<"n", "o">>)}

BSContents(p) ==
    {[BSDict(p, FALSE, Null) EXCEPT !.top = t] : t \in {"unreadable", "list", "number"}}
    \cup {BSDict(p, FALSE, Null)}
    \cup {BSDict(p, TRUE, v) : v \in BSValues}

BSTrees ==
    {(AslJson1 :> c1) @@ j2 @@ j3 @@ j4 :
        c1 \in BSContents(AslJson1),
        j2 \in {<<>>, AslJson2 :> [BSDict(AslJson2, FALSE, Null) EXCEPT !.top = "unreadable"],
                AslJson2 :> BSDict(AslJson2, TRUE, Bool(FALSE))},
        j3 \in {<<>>, AslJsonFunc :> BSDict(AslJsonFunc, TRUE, Bool(FALSE))},
        j4 \in {<<>>, AslJsonDeriv :> BSDict(AslJsonDeriv, TRUE, Bool(FALSE))}}

InitBS ==
    /\ script = "set_background_suppression_true"
    /\ args = <<>>
    /\ dry_run \in BOOLEAN
    /\ run = 1
    /\ pc = "start"
    /\ fs \in BSTrees
    /\ fs0 = fs
    /\ warned = {}
    /\ printed = {}
    /\ writes = {}
    /\ RRIdle
    /\ FilesIdle

\* main, line 110: the files iter_asl_json_files yields.
BS_Start ==
    /\ script = "set_background_suppression_true" /\ pc = "start"
    /\ todo' = iter_asl_json_files(fs)
    /\ pc' = IF iter_asl_json_files(fs) = {} THEN "summary" ELSE "loop"
    /\ UNCHANGED <<script, args, dry_run, run, fs, fs0, warned, printed, writes, rrVars,
                   results, report>>

\* main, lines 110-118: one iteration, in any order rglob may yield the files.
BS_Process ==
    /\ script = "set_background_suppression_true" /\ pc = "loop"
    /\ \E jp \in todo :
         LET r == update_background_suppression(fs, jp, dry_run)
         IN  /\ fs' = [fs EXCEPT ![jp] = r.content]
             /\ writes' = IF r.wrote THEN writes \cup {jp} ELSE writes
             /\ todo' = todo \ {jp}
             /\ IF r.crashed
                THEN /\ pc' = "crashed"
                     /\ UNCHANGED <<results, printed>>
                ELSE /\ pc' = IF todo \ {jp} = {} THEN "summary" ELSE "loop"
                     /\ results' = (jp :> [changed |-> r.changed, message |-> r.message])
                                   @@ results
                     /\ printed' = printed \cup {[file |-> jp, message |-> r.message]}
    /\ UNCHANGED <<script, args, dry_run, run, fs0, warned, rrVars, report>>

\* main, lines 120-121.
BS_Summary ==
    /\ script = "set_background_suppression_true" /\ pc = "summary"
    /\ report' = {Summary(results)}
    /\ pc' = "done"
    /\ UNCHANGED <<script, args, dry_run, run, fs, fs0, warned, printed, writes, rrVars,
                   todo, results>>

NextBS == BS_Start \/ BS_Process \/ BS_Summary \/ RunAgain

SpecBS == InitBS /\ [][NextBS]_vars

(***************************************************************************)
(* fix_asl_odd_volumes.py                                                  *)
(*                                                                         *)
(* A file's content is a record: `kind` says whether it is the image, the  *)
(* sidecar or the aslcontext table.  An image has `ok` (nibabel can load   *)
(* it), `ndim` and `nvols` (shape[3]); a sidecar has `ok` (it is valid     *)
(* JSON), NumVolumes and TotalAcquiredPairs, the latter counted in halves  *)
(* so that NumVolumes / 2 is an integer; a table has its non-blank lines.  *)
(***************************************************************************)
Absent == -1         \* the key is not in the JSON object
NonNumeric == -2     \* the value is not an int or a float

AslNiiEnd == <<"_asl", ".nii", ".gz">>
AslContextEnd == <<"_aslcontext", ".tsv">>

\* str.replace("_asl.json", "_aslcontext.tsv") on a name ending in "_asl.json".
TsvOf(json_path) == with_name(json_path, DropLast(json_path.name, 2) \o AslContextEnd)

other(volume_type) == IF volume_type = "label" THEN "control" ELSE "label"

\* The lines rewrite_aslcontext writes.
aslcontext(num_volumes, first_type) ==
    <<"volume_type">> \o
    [i \in 1..num_volumes |-> IF i % 2 = 1 THEN first_type ELSE other(first_type)]

\* get_num_volumes_from_json; Absent for None.
get_num_volumes_from_json(f, json_path) ==
    LET data == f[json_path]
        tsv_path == TsvOf(json_path)
    IN  IF ~data.ok THEN Absent
        ELSE IF data.NumVolumes >= 0 THEN data.NumVolumes
        ELSE IF Exists(f, tsv_path) /\ Len(f[tsv_path].lines) >= 2
             THEN Len(f[tsv_path].lines) - 1
        ELSE Absent

\* update_asl_json followed or preceded by rewrite_aslcontext, as process_asl
\* calls them: json.load raises on a malformed sidecar.
WriteCounts(f, json_path, num_volumes, first_type, tsv_first) ==
    LET tsv_path == TsvOf(json_path)
        tsv == [orig |-> tsv_path, kind |-> "tsv", ok |-> TRUE, ndim |-> 0, nvols |-> 0,
                NumVolumes |-> Absent, TotalAcquiredPairs |-> Absent,
                lines |-> aslcontext(num_volumes, first_type)]
        json_fail == ~f[json_path].ok
        wrote_tsv == tsv_first \/ ~json_fail
        f1 == IF json_fail THEN f
              ELSE [f EXCEPT ![json_path] = [@ EXCEPT !.NumVolumes = num_volumes,
                                                       !.TotalAcquiredPairs = num_volumes]]
        f2 == IF wrote_tsv THEN (tsv_path :> tsv) @@ f1 ELSE f1
    IN  [fs |-> f2,
         writes |-> (IF json_fail THEN {} ELSE {json_path})
                    \cup (IF wrote_tsv THEN {tsv_path} ELSE {}),
         crashed |-> json_fail]

\* process_asl: the tree after the call, the message printed, the paths
\* written, whether an exception escaped.
process_asl(f, asl_nii_path, first_volume_type, dry) ==
    LET stem == DropLast(asl_nii_path.name, 2)
        guess == with_name(asl_nii_path, stem \o AslJsonEnd)
        candidate == with_name(asl_nii_path, stem \o JSON)
        json_path == IF Exists(f, guess) THEN guess ELSE candidate
        img == f[asl_nii_path]
        from_json == get_num_volumes_from_json(f, json_path)
        num_volumes == IF from_json # Absent THEN from_json ELSE img.nvols
        out(tree, message, wr, crashed) ==
            [fs |-> tree, message |-> message, writes |-> wr, crashed |-> crashed]
    IN  IF ~Exists(f, json_path) THEN out(f, "missing sidecar JSON", {}, FALSE)
        ELSE IF from_json = Absent /\ ~img.ok THEN out(f, "cannot infer volumes", {}, FALSE)
        ELSE IF from_json = Absent /\ img.ndim # 4 THEN out(f, "non-4D image", {}, FALSE)
        ELSE IF num_volumes % 2 = 1
             THEN IF dry THEN out(f, "[DRY-RUN] Would trim last volume", {}, FALSE)
                  ELSE IF ~img.ok \/ img.ndim # 4 \/ img.nvols < 1
                       THEN out(f, "Odd volume count detected", {}, TRUE)
                  ELSE LET new_num == img.nvols - 1
                           f1 == [f EXCEPT ![asl_nii_path] = [@ EXCEPT !.nvols = new_num]]
                           w == WriteCounts(f1, json_path, new_num, first_volume_type, FALSE)
                       IN  out(w.fs, IF w.crashed THEN "Odd volume count detected"
                                     ELSE "Trimmed last volume",
                               {asl_nii_path} \cup w.writes, w.crashed)
        ELSE IF dry THEN out(f, "Even volume count", {}, FALSE)
             ELSE LET w == WriteCounts(f, json_path, num_volumes, first_volume_type, TRUE)
                  IN  out(w.fs, "Even volume count", w.writes, w.crashed)

\* main, lines 156-172: the images main visits.  A subject with session
\* directories is searched in <subject>/<session>/perf, one without in
\* <subject>/perf.
HasSessions(f, subj) ==
    \E p \in DOMAIN f : Len(p.dir) >= 2 /\ p.dir[1] = subj /\ StartsWithSes(p.dir[2])

AslImages(f) ==
    {p \in DOMAIN f :
        /\ EndsWith(p.name, AslNiiEnd)
        /\ Len(p.dir) >= 2 /\ StartsWithSub(p.dir[1])
        /\ IF HasSessions(f, p.dir[1])
           THEN Len(p.dir) = 3 /\ StartsWithSes(p.dir[2]) /\ p.dir[3] = <<"perf">>
           ELSE Len(p.dir) = 2 /\ p.dir[2] = <<"perf">>}

\* The perf files of the initial trees.
Ses2 == <<"ses-02">>

AslPath(dir, sestok, ending) == [dir |-> dir, name |-> <<"sub-01", sestok>> \o ending]

Image(p, ok, ndim, nvols) ==
    [orig |-> p, kind |-> "nii", ok |-> ok, ndim |-> ndim, nvols |-> nvols,
     NumVolumes |-> Absent, TotalAcquiredPairs |-> Absent, lines |-> <<>>]

Sidecar(p, ok, nv, pairs) ==
    [orig |-> p, kind |-> "json", ok |-> ok, ndim |-> 0, nvols |-> 0,
     NumVolumes |-> nv, TotalAcquiredPairs |-> pairs, lines |-> <<>>]

Table(p, lines) ==
    [orig |-> p, kind |-> "tsv", ok |-> TRUE, ndim |-> 0, nvols |-> 0,
     NumVolumes |-> Absent, TotalAcquiredPairs |-> Absent, lines |-> lines]

Images(p) ==
    {Image(p, TRUE, 4, n) : n \in {2, 3, 4}}
    \cup {Image(p, TRUE, 3, 0), Image(p, FALSE, 0, 0)}

Sidecars(p) ==
    {Sidecar(p, FALSE, Absent, Absent), Sidecar(p, TRUE, Absent, Absent),
     Sidecar(p, TRUE, NonNumeric, Absent),
     Sidecar(p, TRUE, 2, Absent), Sidecar(p, TRUE, 2, 2), Sidecar(p, TRUE, 4, 4),
     Sidecar(p, TRUE, 3, Absent), Sidecar(p, TRUE, 5, Absent)}

Tables(p) ==
    {Table(p, <<"volume_type">>), Table(p, aslcontext(2, "label")),
     Table(p, aslcontext(3, "label"))}

\* Every way to have the file p absent or present with one of the contents C.
Opt(p, C) == {<<>>} \cup {p :> c : c \in C}

\* The first image with its possible companions, in directory dir.
AslGroup(dir, sestok) ==
    LET nii == AslPath(dir, sestok, AslNiiEnd)
        json == AslPath(dir, sestok, AslJsonEnd)
        json2 == AslPath(dir, sestok, <<"_asl">> \o AslJsonEnd)
        tsv == AslPath(dir, sestok, AslContextEnd)
    IN  {(nii :> i) @@ j @@ j2 @@ t :
            i \in Images(nii), j \in Opt(json, Sidecars(json)),
            j2 \in Opt(json2, {Sidecar(json2, TRUE, 2, Absent)}),
            t \in Opt(tsv, Tables(tsv))}

\* A second session with an odd image, or an even one with a malformed sidecar.
AslSecond ==
    LET dir == <<Sub, Ses2, <<"perf">>>>
        nii == AslPath(dir, "_ses-02", AslNiiEnd)
        json == AslPath(dir, "_ses-02", AslJsonEnd)
    IN  {<<>>,
         (nii :> Image(nii, TRUE, 4, 3)) @@ (json :> Sidecar(json, TRUE, 3, Absent)),
         (nii :> Image(nii, TRUE, 4, 2)) @@ (json :> Sidecar(json, FALSE, Absent, Absent))}

FAOVTrees ==
    {g @@ h : g \in AslGroup(DataDir("ses", "perf"), "_ses-01"), h \in AslSecond}
    \cup AslGroup(DataDir("noses", "perf"), "_ses-01")
    \cup {<<>>}

InitFAOV ==
    /\ script = "fix_asl_odd_volumes"
    /\ args \in {[first |-> f, exists |-> b] : f \in {"label", "control"}, b \in BOOLEAN}
    /\ dry_run \in BOOLEAN
    /\ run = 1
    /\ pc = "start"
    /\ fs \in (IF args.exists THEN FAOVTrees ELSE {<<>>})
    /\ fs0 = fs
    /\ warned = {}
    /\ printed = {}
    /\ writes = {}
    /\ RRIdle
    /\ FilesIdle

\* main, lines 151-172: the test of bids_dir (a bare return), then the
\* directories are listed.
FAOV_Start ==
    /\ script = "fix_asl_odd_volumes" /\ pc = "start"
    /\ IF ~args.exists
       THEN /\ warned' = {"BIDS directory not found"}
            /\ pc' = "error"
            /\ UNCHANGED todo
       ELSE /\ todo' = AslImages(fs)
            /\ pc' = IF AslImages(fs) = {} THEN "done" ELSE "loop"
            /\ UNCHANGED warned
    /\ UNCHANGED <<script, args, dry_run, run, fs, fs0, printed, writes, rrVars,
                   results, report>>

\* main, line 173: process_asl on the next image; iterdir lists the sessions
\* in any order, and each perf directory of the model holds one image.
FAOV_Process ==
    /\ script = "fix_asl_odd_volumes" /\ pc = "loop"
    /\ \E asl_nii \in todo :
         LET r == process_asl(fs, asl_nii, args.first, dry_run)
         IN  /\ fs' = r.fs
             /\ writes' = writes \cup r.writes
             /\ printed' = printed \cup {[file |-> asl_nii, message |-> r.message]}
             /\ todo' = todo \ {asl_nii}
             /\ pc' = IF r.crashed THEN "crashed"
                      ELSE IF todo \ {asl_nii} = {} THEN "done" ELSE "loop"
    /\ UNCHANGED <<script, args, dry_run, run, fs0, warned, rrVars, results, report>>

NextFAOV == FAOV_Start \/ FAOV_Process \/ RunAgain

SpecFAOV == InitFAOV /\ [][NextFAOV]_vars

(***************************************************************************)
(* The four scripts that take --dry-run and rename or rewrite files.       *)
(***************************************************************************)
InitDry == InitRR \/ InitFRR \/ InitBS \/ InitFAOV

NextDry ==
    \/ RR_Plan \/ RR_Apply \/ RR_UpdateFmap
    \/ FRR_Plan \/ FRR_Apply
    \/ BS_Start \/ BS_Process \/ BS_Summary
    \/ FAOV_Start \/ FAOV_Process
    \/ RunAgain

SpecDry == InitDry /\ [][NextDry]_vars

\* C4: with --dry-run, remove_run_and_fix_intendedfor, fix_run_rec_entities,
\* set_background_suppression_true and fix_asl_odd_volumes leave the dataset
\* tree as it was: at every point of a dry run, and of a second dry run after
\* it, the tree equals the initial tree and no path has been written.
C4_DryRunLeavesTree ==
    dry_run => (fs = fs0 /\ writes = {})

\* C4 witness: a dry run of fix_run_rec_entities has finished after printing
\* a rename it planned.
C4_Witness ==
    /\ script = "fix_run_rec_entities" /\ dry_run /\ pc = "done"
    /\ \E l \in printed : l.kind = "RENAME" /\ ~Exists(fs, l.dst)
    /\ fs = fs0

\* Dry runs of the other three scripts that had something to do.
C4_WitnessOthers ==
    \/ /\ script = "remove_run" /\ dry_run /\ pc = "done" /\ printed # {}
    \/ /\ script = "set_background_suppression_true" /\ dry_run /\ pc = "done"
       /\ \E l \in printed : l.message = "DRY-RUN would update"
    \/ /\ script = "fix_asl_odd_volumes" /\ dry_run /\ pc = "done"
       /\ \E l \in printed : l.message = "[DRY-RUN] Would trim last volume"

(***************************************************************************)
(* cubids_group_rename.py                                                  *)
(*                                                                         *)
(* This script works on strings with regular expressions, so its strings   *)
(* are sequences of finer atoms: the separator "_", entity keys ("acq-",   *)
(* "acquisition-", "suffix-"), and the alphanumeric pieces of values       *)
(* ("VARIANT", "Obliquity", "True").  A file name is such a sequence, for  *)
(* example "sub-01" "_" "acq-" "HB" "_" "dwi" ".nii" ".gz".  The patterns  *)
(* are applied to the file name; the directories of the model hold none of *)
(* the patterns' texts.                                                    *)
(***************************************************************************)
\* s.find(sub) + 1: where sub first occurs in s, 0 if nowhere.
IndexOf(s, sub) ==
    LET I == {i \in 1..(Len(s) - Len(sub) + 1) : SubSeq(s, i, i + Len(sub) - 1) = sub}
    IN  IF I = {} THEN 0 ELSE MinOf(I)

\* sub in s
Contains(s, sub) == sub = <<>> \/ IndexOf(s, sub) > 0

\* s.startswith(pre)
StartsWith(s, pre) == Len(s) >= Len(pre) /\ SubSeq(s, 1, Len(pre)) = pre

\* s.replace(old, new), also re.sub(re.escape(old), new, s); old is not empty.
RECURSIVE Replace(_, _, _)
Replace(s, old, new) ==
    LET i == IndexOf(s, old)
    IN  IF i = 0 THEN s
        ELSE SubSeq(s, 1, i - 1) \o new
             \o Replace(SubSeq(s, i + Len(old), Len(s)), old, new)

\* re.search(key + "([^_]+)", s): where the match starts, 0 for no match.
KeyAt(s, key) ==
    LET I == {i \in 1..(Len(s) - 1) : s[i] = key /\ s[i + 1] # "_"}
    IN  IF I = {} THEN 0 ELSE MinOf(I)

\* Where the run of [^_] that starts at i ends.
RunEnd(s, i) ==
    LET J == {j \in i..Len(s) : s[j] = "_"}
    IN  IF J = {} THEN Len(s) ELSE MinOf(J) - 1

\* match.group(1) if match else ""
Group1(s, key) ==
    LET i == KeyAt(s, key)
    IN  IF i = 0 THEN <<>> ELSE SubSeq(s, i + 1, RunEnd(s, i + 1))

\* re.sub(r"acq-[^_]+", "acq-" + new, s)
RECURSIVE SubAcq(_, _)
SubAcq(s, new) ==
    LET i == KeyAt(s, "acq-")
    IN  IF i = 0 THEN s
        ELSE SubSeq(s, 1, i - 1) \o <<"acq-">> \o new
             \o SubAcq(SubSeq(s, RunEnd(s, i + 1) + 1, Len(s)), new)

\* clean_filename: re.sub(r"__+", "_", filename)
RECURSIVE clean_filename(_)
clean_filename(filename) ==
    IF Len(filename) < 2 THEN filename
    ELSE IF filename[1] = "_" /\ filename[2] = "_" THEN clean_filename(Tail(filename))
    ELSE <<filename[1]>> \o clean_filename(Tail(filename))

\* unify_acq without the two containment tests (lines 69-72).
unify_acq_Concatenate(existing_acq, new_acq) ==
    IF existing_acq = <<>> THEN new_acq
    ELSE existing_acq \o <<"_">> \o new_acq

unify_acq(existing_acq, new_acq) ==
    IF existing_acq = <<>> THEN new_acq
    ELSE IF Contains(existing_acq, new_acq) THEN existing_acq
    ELSE IF Contains(new_acq, existing_acq) THEN new_acq
    ELSE existing_acq \o <<"_">> \o new_acq

\* merge_variants: the first "VARIANT" stays, the later ones go.
merge_variants(acq_str) ==
    LET i == IndexOf(acq_str, <<"VARIANT">>)
    IN  IF i = 0 THEN acq_str
        ELSE SubSeq(acq_str, 1, i)
             \o SelectSeq(SubSeq(acq_str, i + 1, Len(acq_str)), LAMBDA a : a # "VARIANT")

\* len() of the atoms that occur in the keys of an acquisition map.
AtomLen ==
    [a \in {"VARIANT", "Obliquity", "True", "False", "Dim3Size", "HB"} |->
        CASE a = "VARIANT" -> 7 [] a = "Obliquity" -> 9 [] a = "True" -> 4
          [] a = "False" -> 5 [] a = "Dim3Size" -> 8 [] a = "HB" -> 2]

RECURSIVE StrLen(_)
StrLen(str) == IF str = <<>> THEN 0 ELSE AtomLen[Head(str)] + StrLen(Tail(str))

\* The items in the order of the dict, without the sort of lines 102-104.
SortedByKeyLen_DictOrder(items) == items

\* sorted(acq_rename_map.items(), key=lambda x: -len(x[0])): a stable sort.
RECURSIVE SortedByKeyLen(_)
SortedByKeyLen(items) ==
    IF items = <<>> THEN <<>>
    ELSE LET x == items[Len(items)]
             rest == SortedByKeyLen(DropLast(items, 1))
             before == SelectSeq(rest, LAMBDA y : StrLen(y[1]) >= StrLen(x[1]))
             after == SelectSeq(rest, LAMBDA y : StrLen(y[1]) < StrLen(x[1]))
         IN  before \o <<x>> \o after

\* The substitution loop of modify_acq (lines 100-107).
RECURSIVE ApplyMap(_, _)
ApplyMap(items, merged_acq) ==
    IF items = <<>> THEN merged_acq
    ELSE ApplyMap(Tail(items), Replace(merged_acq, items[1][1], items[1][2]))

modify_acq(existing_acq, new_acq, acq_rename_map) ==
    merge_variants(ApplyMap(SortedByKeyLen(acq_rename_map),
                            unify_acq(existing_acq, new_acq)))

\* "dwi" in search_term and "epi" not in search_term
IsDwiTerm(search_term) == Contains(search_term, <<"dwi">>) /\ ~Contains(search_term, <<"epi">>)

\* re.search(r"_(run-\d+|mt-(?:on|off))(?=_|$)", name_no_ext).start() + 1, 0 for None.
TokenMatch(name_no_ext) ==
    LET I == {i \in 1..(Len(name_no_ext) - 1) :
                /\ name_no_ext[i] = "_"
                /\ name_no_ext[i + 1] \in {"run-1", "run-2", "mt-on", "mt-off"}
                /\ (i + 1 = Len(name_no_ext) \/ name_no_ext[i + 2] = "_")}
    IN  IF I = {} THEN 0 ELSE MinOf(I)

\* Lines 176-184: (name_no_ext, ext) of a base name.
SplitExt(base_name) ==
    IF EndsWith(base_name, NIIGZ) THEN <<DropLast(base_name, 2), NIIGZ>>
    ELSE IF EndsWith(base_name, JSON) THEN <<DropLast(base_name, 1), JSON>>
    ELSE LET dot == rfind_dot(base_name)
         IN  IF dot <= 1 THEN <<base_name, <<>>>>
             ELSE <<SubSeq(base_name, 1, dot - 1), SubSeq(base_name, dot, Len(base_name))>>

\* Lines 155-218: the new name of the file named `name`, for the acquisition
\* and suffix of the RenameEntitySet.
NewName(name, acq, suffix, acq_rename_map) ==
    LET existing_acq == Group1(name, "acq-")
        new_acq_final == modify_acq(existing_acq, acq, acq_rename_map)
        acq_token == <<"_", "acq-">> \o new_acq_final
        sp == SplitExt(name)
        name_no_ext == sp[1]
        at == TokenMatch(name_no_ext)
        suffix_token == <<"_">> \o suffix
        new_name_no_ext ==
            IF at > 0
            THEN SubSeq(name_no_ext, 1, at - 1) \o acq_token
                 \o SubSeq(name_no_ext, at, Len(name_no_ext))
            ELSE IF suffix # <<>> /\ EndsWith(name_no_ext, suffix_token)
            THEN DropLast(name_no_ext, Len(suffix_token)) \o acq_token \o suffix_token
            ELSE name_no_ext \o acq_token
        replaced == IF KeyAt(name, "acq-") > 0 THEN SubAcq(name, new_acq_final)
                    ELSE new_name_no_ext \o sp[2]
    IN  clean_filename(Replace(Replace(replaced, <<"Obliquity", "False">>, <<"Plumb">>),
                               <<"Obliquity", "True">>, <<"Oblique">>))

\* path.replace(".nii.gz", ext)
WithExt(path, ext) == with_name(path, Replace(path.name, NIIGZ, ext))

\* subprocess.run(["git", "mv", src, dst]) on tracked files: git refuses when
\* the source is missing or the destination exists, and the script goes on.
git_mv(f, src, dst) == IF Exists(f, src) /\ ~Exists(f, dst) THEN Move(f, src, dst) ELSE f

\* subprocess.run(["git", "rm", path])
git_rm(f, path) == [q \in DOMAIN f \ {path} |-> f[q]]

\* rename_set_patterns (lines 40-56): the RenameEntitySets that contain the
\* search term, without repetition, minus the delete patterns.
RECURSIVE Unique(_)
Unique(items) ==
    IF items = <<>> THEN <<>>
    ELSE LET rest == Unique(DropLast(items, 1))
         IN  IF items[Len(items)] \in Range(rest) THEN rest
             ELSE Append(rest, items[Len(items)])

rename_set_patterns(df_summary, a) ==
    LET filtered == SelectSeq(df_summary,
                        LAMBDA row : Contains(row.RenameEntitySet, a.search_term))
        all == Unique([i \in DOMAIN filtered |-> filtered[i].RenameEntitySet])
    IN  IF a.has_delete_set_patterns
        THEN SelectSeq(all, LAMBDA pat : pat \notin Range(a.delete_set_patterns))
        ELSE all

\* Flattening of a sequence of sequences.
RECURSIVE Flatten(_)
Flatten(ss) == IF ss = <<>> THEN <<>> ELSE Head(ss) \o Flatten(Tail(ss))

\* The files of one summary row (lines 135-140), each with the row's set.
RowFiles(df_summary, df_files, row) ==
    LET key_param_group ==
            {df_summary[i].KeyParamGroup :
                i \in {j \in DOMAIN df_summary :
                         df_summary[j].RenameEntitySet = row.RenameEntitySet}}
        files == SelectSeq(df_files, LAMBDA fr : fr.KeyParamGroup \in key_param_group)
    IN  [i \in DOMAIN files |-> [file |-> files[i].FilePath, set |-> row.RenameEntitySet]]

\* The files the loops over patterns, matching rows and files visit, in order
\* (lines 117-146 and 276-295).
Visits(df_summary, df_files, patterns) ==
    Flatten([k \in DOMAIN patterns |->
        LET matching_entries ==
                SelectSeq(df_summary,
                    LAMBDA row : StartsWith(row.RenameEntitySet, patterns[k]))
        IN  Flatten([r \in DOMAIN matching_entries |->
                        RowFiles(df_summary, df_files, matching_entries[r])])])

\* Lines 233-260: one existence test with its print and git mv.
MvStep(st, src, dst, dry) ==
    IF Exists(st.fs, src)
    THEN [st EXCEPT !.fs = IF dry THEN @ ELSE git_mv(@, src, dst),
                    !.printed = @ \cup {[kind |-> "Rename", src |-> src, dst |-> dst]}]
    ELSE [st EXCEPT !.printed = @ \cup {[kind |-> "Not found", src |-> src, dst |-> NoRel]}]

\* Lines 146-260: the body of the rename loop for one visited file.
RenameFile(st, v, a, dry) ==
    LET nii_path == v.file
        new_nii_path ==
            with_name(nii_path,
                      NewName(nii_path.name, Group1(v.set, "acquisition-"),
                              Group1(v.set, "suffix-"), a.acq_rename_map))
        st0 == [st EXCEPT !.log = Append(@, [orig_name |-> nii_path,
                                             rename_to |-> new_nii_path])]
        st1 == MvStep(st0, nii_path, new_nii_path, dry)
        st2 == MvStep(st1, WithExt(nii_path, JSON), WithExt(new_nii_path, JSON), dry)
        st3 == MvStep(st2, WithExt(nii_path, <<".bvec">>),
                      WithExt(new_nii_path, <<".bvec">>), dry)
    IN  IF IsDwiTerm(a.search_term)
        THEN MvStep(st3, WithExt(nii_path, <<".bval">>),
                    WithExt(new_nii_path, <<".bval">>), dry)
        ELSE st2

\* Lines 305-336: one existence test with its print, git rm and log entry.
RmStep(st, path, dry) ==
    IF Exists(st.fs, path)
    THEN [st EXCEPT !.fs = IF dry THEN @ ELSE git_rm(@, path),
                    !.printed = @ \cup {[kind |-> "Delete", src |-> path, dst |-> NoRel]},
                    !.log = Append(@, [file_deleted |-> path])]
    ELSE [st EXCEPT !.printed = @ \cup {[kind |-> "Not found for deletion",
                                         src |-> path, dst |-> NoRel]}]

\* Lines 295-336: the body of the delete loop for one visited file.
DeleteFile(st, v, a, dry) ==
    LET st2 == RmStep(RmStep(st, v.file, dry), WithExt(v.file, JSON), dry)
    IN  IF IsDwiTerm(a.search_term)
        THEN RmStep(RmStep(st2, WithExt(v.file, <<".bvec">>), dry),
                    WithExt(v.file, <<".bval">>), dry)
        ELSE st2

\* A loop over the visited files with body Body.
RECURSIVE Loop(_, _, _, _, _)
Loop(Body(_, _, _, _), visits, st, a, dry) ==
    IF visits = <<>> THEN st
    ELSE Loop(Body, Tail(visits), Body(st, Head(visits), a, dry), a, dry)

\* DataFrame(log).to_csv(log_file): the file is created or overwritten.
to_csv(f, log_file, log) == (log_file :> [orig |-> log_file, rows |-> log]) @@ f

\* The files of the model.
SummaryFile == [dir |-> <<<<"code">>>>, name |-> <<"summary", ".tsv">>]
FilesFile == [dir |-> <<<<"code">>>>, name |-> <<"files", ".tsv">>]
RenameLogFile == [dir |-> <<<<"code">>>>, name |-> <<"rename", "_", "log", ".tsv">>]
DeleteLogFile == [dir |-> <<<<"code">>>>, name |-> <<"delete", "_", "log", ".tsv">>]

DwiPath(ents, ext) ==
    [dir |-> DataDir("ses", "dwi"),
     name |-> <<"sub-01", "_", "ses-01", "_">> \o ents \o <<"_", "dwi">> \o ext]

F1(ext) == DwiPath(<<"run-1">>, ext)
F2(ext) == DwiPath(<<"acq-", "HB">>, ext)
F1Dst == DwiPath(<<"acq-", "VARIANT", "Oblique", "_", "run-1">>, NIIGZ)

EntitySet(acq, datatype, suffix) ==
    <<"acquisition-">> \o acq \o <<"_", "datatype-", datatype, "_", "suffix-", suffix>>

SetA == EntitySet(<<"VARIANT", "Obliquity", "True">>, "dwi", "dwi")
SetB == EntitySet(<<"HB", "VARIANT", "Dim3Size">>, "dwi", "dwi")
SetC == EntitySet(<<"VARIANT", "Obliquity", "True">>, "func", "bold")

SummaryRow(set, group) == [RenameEntitySet |-> set, KeyParamGroup |-> group]
FilesRow(path, group) == [FilePath |-> path, KeyParamGroup |-> group]

Summaries ==
    {<<SummaryRow(SetA, "g1"), SummaryRow(SetB, "g2")>>,
     <<SummaryRow(SetA, "g1"), SummaryRow(SetA, "g2"), SummaryRow(SetC, "g3")>>,
     <<SummaryRow(SetB, "g1")>>}

FileTables ==
    {<<FilesRow(F1(NIIGZ), "g1"), FilesRow(F2(NIIGZ), "g2")>>,
     <<FilesRow(F2(NIIGZ), "g1")>>}

AcqMaps ==
    {<<>>,
     <<<< <<"Obliquity">>, <<"Obl">> >>,
       << <<"VARIANT", "Obliquity", "True">>, <<"VARIANT", "Oblique">> >>>>}

CGRArgs ==
    {[search_term |-> <<"datatype-", t>>, has_delete_set_patterns |-> d[1],
      delete_set_patterns |-> d[2], delete_log_file |-> d[3], acq_rename_map |-> m] :
        t \in {"dwi", "func"},
        d \in {<<FALSE, <<>>, NoRel>>, <<TRUE, <<SetB>>, DeleteLogFile>>,
               <<TRUE, <<SetB>>, NoRel>>},
        m \in AcqMaps}

Data(p) == [orig |-> p, rows |-> <<>>]

CGRDatasets ==
    {[p \in N1 \cup N2 \cup N3 |-> Data(p)] :
        N1 \in {{}, {F1(NIIGZ)}, {F1(NIIGZ), F1(JSON)},
                {F1(NIIGZ), F1(JSON), F1(<<".bvec">>), F1(<<".bval">>)}},
        N2 \in {{}, {F2(NIIGZ), F2(JSON)}},
        N3 \in {{}, {F1Dst}}}

CGRTrees ==
    {d @@ (SummaryFile :> [orig |-> SummaryFile, rows |-> sm])
       @@ (FilesFile :> [orig |-> FilesFile, rows |-> ft]) @@ old :
        d \in CGRDatasets, sm \in Summaries, ft \in FileTables,
        old \in {<<>>, RenameLogFile :> [orig |-> RenameLogFile,
                       rows |-> <<[orig_name |-> F1(NIIGZ), rename_to |-> F1Dst]>>]}}

InitCGR ==
    /\ script = "cubids_group_rename"
    /\ args \in CGRArgs
    /\ dry_run \in BOOLEAN
    /\ run = 1
    /\ pc = "start"
    /\ fs \in CGRTrees
    /\ fs0 = fs
    /\ warned = {}
    /\ printed = {}
    /\ writes = {}
    /\ RRIdle
    /\ todo = <<>>
    /\ results = <<>>
    /\ report = <<>>

\* post_cubids_processing, lines 36-260: the tables are read and the rename
\* loop runs; `results` is rename_log.
CGR_Rename ==
    /\ script = "cubids_group_rename" /\ pc = "start"
    /\ LET df_summary == fs[SummaryFile].rows
           df_files == fs[FilesFile].rows
           visits == Visits(df_summary, df_files, rename_set_patterns(df_summary, args))
           st == Loop(RenameFile, visits,
                      [fs |-> fs, printed |-> printed, log |-> <<>>], args, dry_run)
       IN  /\ fs' = st.fs
           /\ printed' = st.printed
           /\ results' = st.log
           /\ writes' = writes \cup {p \in DOMAIN st.fs : p \notin DOMAIN fs}
    /\ pc' = "renamed"
    /\ UNCHANGED <<script, args, dry_run, run, fs0, warned, rrVars, todo, report>>

\* post_cubids_processing, lines 263-266: the rename log is saved.
CGR_SaveRenameLog ==
    /\ script = "cubids_group_rename" /\ pc = "renamed"
    /\ fs' = to_csv(fs, RenameLogFile, results)
    /\ writes' = writes \cup {RenameLogFile}
    /\ pc' = "logged"
    /\ UNCHANGED <<script, args, dry_run, run, fs0, warned, printed, rrVars,
                   todo, results, report>>

\* post_cubids_processing, lines 272-342, and main's closing message
\* (lines 412-415); `report` is delete_log.
CGR_Delete ==
    /\ script = "cubids_group_rename" /\ pc = "logged"
    /\ LET closing == [kind |-> IF dry_run THEN "Dry run complete; no files modified."
                                ELSE "Processing complete.",
                       src |-> NoRel, dst |-> NoRel]
       IN  IF args.has_delete_set_patterns /\ args.delete_log_file # NoRel
           THEN LET visits == Visits(fs[SummaryFile].rows, fs[FilesFile].rows,
                                     args.delete_set_patterns)
                    st == Loop(DeleteFile, visits,
                               [fs |-> fs, printed |-> printed, log |-> <<>>],
                               args, dry_run)
                IN  /\ fs' = to_csv(st.fs, args.delete_log_file, st.log)
                    /\ printed' = st.printed \cup {closing}
                    /\ report' = st.log
                    /\ writes' = writes \cup {args.delete_log_file}
           ELSE /\ printed' = printed \cup {closing}
                /\ UNCHANGED <<fs, report, writes>>
    /\ pc' = "done"
    /\ UNCHANGED <<script, args, dry_run, run, fs0, warned, rrVars, todo, results>>

NextCGR == CGR_Rename \/ CGR_SaveRenameLog \/ CGR_Delete

SpecCGR == InitCGR /\ [][NextCGR]_vars

(***************************************************************************)
(* Properties of cubids_group_rename.py                                    *)
(***************************************************************************)
\* C6: with --dry-run, cubids_group_rename performs no git move or removal
\* and modifies no files: no file has been created, renamed, deleted or
\* written, as its closing message "Dry run complete; no files modified."
\* states.
C6_DryRunModifiesNoFile ==
    (script = "cubids_group_rename" /\ dry_run) => (fs = fs0 /\ writes = {})

\* The part of C6 the code does satisfy: a dry run leaves every file other
\* than the two logs as it was.
C6_DryRunKeepsDataset ==
    (script = "cubids_group_rename" /\ dry_run) =>
        /\ DOMAIN fs \ {RenameLogFile, DeleteLogFile} = DOMAIN fs0 \ {RenameLogFile, DeleteLogFile}
        /\ \A p \in DOMAIN fs0 \ {RenameLogFile, DeleteLogFile} : fs[p] = fs0[p]

(***************************************************************************)
(* update_perf_metadata.py                                                 *)
(*                                                                         *)
(* A JSON value is a record [t, v]: t is "absent" (no such key), "num",    *)
(* "nan" (the NaN literal json.load accepts), "str" or "list"; v holds the *)
(* number, or the items of the list or string.  TotalAcquiredPairs is      *)
(* counted in halves, so that NumVolumes / 2 is the integer NumVolumes.    *)
(***************************************************************************)
JAbsent == [t |-> "absent", v |-> <<>>]
JNum(n) == [t |-> "num", v |-> <<n>>]
JNaN == [t |-> "nan", v |-> <<>>]
JStr(x) == [t |-> "str", v |-> x]
JList(xs) == [t |-> "list", v |-> xs]

\* a != b in Python, where a may be the None of dict.get: NaN differs from
\* everything, itself included.
PyNe(a, b) == ~(a.t = b.t /\ a.t # "nan" /\ a.v = b.v)

\* data["NumVolumes"] / 2; dividing a string raises TypeError ("error").
HalfOf(nv) ==
    IF nv.t = "num" THEN JNum(nv.v[1])
    ELSE IF nv.t = "nan" THEN JNaN
    ELSE [t |-> "error", v |-> <<>>]

\* The two updates both functions make (lines 28-51 and 115-138).
CommonUpdates(data) ==
    LET d1 == IF data.RepetitionTime.t # "absent"
                 /\ PyNe(data.RepetitionTimePreparation, data.RepetitionTime)
              THEN [data EXCEPT !.RepetitionTimePreparation = data.RepetitionTime]
              ELSE data
    IN  IF d1.VoxelSizeDims.t # "absent"
           /\ PyNe(d1.AcquisitionVoxelSize, d1.VoxelSizeDims)
        THEN [d1 EXCEPT !.AcquisitionVoxelSize = d1.VoxelSizeDims]
        ELSE d1

\* Whether CommonUpdates sets `updated`.
CommonUpdated(data) ==
    \/ data.RepetitionTime.t # "absent"
       /\ PyNe(data.RepetitionTimePreparation, data.RepetitionTime)
    \/ data.VoxelSizeDims.t # "absent"
       /\ PyNe(data.AcquisitionVoxelSize, data.VoxelSizeDims)

\* update_asl_json of update_perf_metadata.py: the content after the call,
\* whether the file was written, the error printed ("" for none).
upm_update_asl_json(f, json_path) ==
    LET data == f[json_path]
        total_acquired_pairs == HalfOf(data.NumVolumes)
        pairs_differ == data.NumVolumes.t # "absent"
                        /\ PyNe(data.TotalAcquiredPairs, total_acquired_pairs)
        d1 == IF pairs_differ
              THEN [data EXCEPT !.TotalAcquiredPairs = total_acquired_pairs] ELSE data
        updated == pairs_differ \/ CommonUpdated(d1)
    IN  IF ~data.ok
        THEN [content |-> data, wrote |-> FALSE, error |-> "Could not decode JSON"]
        ELSE IF data.NumVolumes.t # "absent" /\ total_acquired_pairs.t = "error"
        THEN [content |-> data, wrote |-> FALSE, error |-> "Error processing"]
        ELSE [content |-> IF updated THEN CommonUpdates(d1) ELSE data,
              wrote |-> updated, error |-> ""]

\* The atoms "ses-<label>" of a path string.
SesAtoms == {"ses-1", "ses-2", "ses-10"}

\* re.sub(r"ses-(?!1\b)[a-zA-Z0-9]+", "ses-1", current_path): every session
\* label other than "1" becomes "1" ("ses-1" before "_" matches as well and
\* is replaced by itself).
to_ses_1(current_path) ==
    [i \in DOMAIN current_path |->
        IF current_path[i] \in SesAtoms THEN "ses-1" ELSE current_path[i]]

\* update_m0_json.
update_m0_json(f, json_path) ==
    LET data == f[json_path]
        original == data.IntendedFor
        is_list_or_str == original.t \in {"str", "list"}
        updated_intended_for == [i \in DOMAIN original.v |-> to_ses_1(original.v[i])]
        path_changed == updated_intended_for # original.v
        set_it == is_list_or_str /\ (path_changed \/ original.t = "str")
        d1 == IF set_it THEN [data EXCEPT !.IntendedFor = JList(updated_intended_for)]
              ELSE data
        updated == set_it \/ CommonUpdated(d1)
    IN  IF ~data.ok
        THEN [content |-> data, wrote |-> FALSE, error |-> "Could not decode JSON"]
        ELSE [content |-> IF updated THEN CommonUpdates(d1) ELSE data,
              wrote |-> updated, error |-> ""]

M0JsonEnd == <<"_m0scan", ".json">>

Ses1 == <<"ses-1">>

\* main, lines 168-183: the files of <subject>/ses-1/perf that match `ending`.
PerfJsons(f, ending) ==
    {p \in DOMAIN f :
        /\ Len(p.dir) = 3 /\ StartsWithSub(p.dir[1])
        /\ p.dir[2] = Ses1 /\ p.dir[3] = <<"perf">>
        /\ EndsWith(p.name, ending)}

\* The perf sidecars of the initial trees.
PerfDir1 == <<Sub, Ses1, <<"perf">>>>

UpmAsl1 == [dir |-> PerfDir1, name |-> <<"sub-01", "_ses-1", "_run-1", "_asl", ".json">>]
UpmAsl2 == [dir |-> PerfDir1, name |-> <<"sub-01", "_ses-1", "_run-2", "_asl", ".json">>]
UpmM0 == [dir |-> PerfDir1, name |-> <<"sub-01", "_ses-1", "_m0scan", ".json">>]
UpmOther == [dir |-> <<Sub, <<"ses-2">>, <<"perf">>>>,
             name |-> <<"sub-01", "_ses-2", "_asl", ".json">>]

PerfJson(p) ==
    [orig |-> p, ok |-> TRUE, NumVolumes |-> JAbsent, TotalAcquiredPairs |-> JAbsent,
     RepetitionTime |-> JAbsent, RepetitionTimePreparation |-> JAbsent,
     VoxelSizeDims |-> JAbsent, AcquisitionVoxelSize |-> JAbsent,
     IntendedFor |-> JAbsent]

Dims == JList(<<3, 3, 4>>)

AslPerfContents(p) ==
    {[PerfJson(p) EXCEPT !.ok = FALSE]}
    \cup {[PerfJson(p) EXCEPT !.NumVolumes = nv, !.TotalAcquiredPairs = tap,
                              !.RepetitionTime = rt[1],
                              !.RepetitionTimePreparation = rt[2],
                              !.VoxelSizeDims = vx[1], !.AcquisitionVoxelSize = vx[2]] :
            nv \in {JAbsent, JNum(4), JNaN, JStr(<<>>)},
            tap \in {JAbsent, JNum(4)},
            rt \in {<<JAbsent, JAbsent>>, <<JNum(4), JNum(2)>>},
            vx \in {<<JAbsent, JAbsent>>, <<Dims, JAbsent>>}}

M0Entry(ses) ==
    <<ses, "/", "perf", "/", "sub-01", "_", ses, "_", "asl", ".nii", ".gz">>

M0PerfContents(p) ==
    {[PerfJson(p) EXCEPT !.ok = FALSE]}
    \cup {[PerfJson(p) EXCEPT !.IntendedFor = i, !.RepetitionTime = rt,
                              !.VoxelSizeDims = vx[1], !.AcquisitionVoxelSize = vx[2]] :
            i \in {JAbsent, JNum(1), JStr(<<M0Entry("ses-2")>>), JStr(<<M0Entry("ses-1")>>),
                   JList(<<M0Entry("ses-1")>>),
                   JList(<<M0Entry("ses-10"), M0Entry("ses-1")>>)},
            rt \in {JAbsent, JNaN},
            vx \in {<<Dims, Dims>>}}

UPMTrees ==
    {a @@ m @@ a2 @@ o :
        a \in Opt(UpmAsl1, AslPerfContents(UpmAsl1)),
        m \in Opt(UpmM0, M0PerfContents(UpmM0)),
        a2 \in Opt(UpmAsl2, {[PerfJson(UpmAsl2) EXCEPT !.ok = FALSE]}),
        o \in Opt(UpmOther, {[PerfJson(UpmOther) EXCEPT !.RepetitionTime = JNum(4)]})}

InitUPM ==
    /\ script = "update_perf_metadata"
    /\ args \in {[is_dir |-> b] : b \in BOOLEAN}
    /\ dry_run = FALSE
    /\ run = 1
    /\ pc = "start"
    /\ fs \in (IF args.is_dir THEN UPMTrees ELSE {<<>>})
    /\ fs0 = fs
    /\ warned = {}
    /\ printed = {}
    /\ writes = {}
    /\ RRIdle
    /\ FilesIdle

\* main, lines 163-176: the test of bids_dir (a bare return), then the
\* subject's perf directory is found.
UPM_Start ==
    /\ script = "update_perf_metadata" /\ pc = "start"
    /\ IF ~args.is_dir
       THEN /\ warned' = {"Error: BIDS directory not found"}
            /\ pc' = "error"
            /\ UNCHANGED todo
       ELSE /\ todo' = PerfJsons(fs, AslJsonEnd) \cup PerfJsons(fs, M0JsonEnd)
            /\ pc' = IF PerfJsons(fs, AslJsonEnd) \cup PerfJsons(fs, M0JsonEnd) = {}
                     THEN "done" ELSE "loop"
            /\ UNCHANGED warned
    /\ UNCHANGED <<script, args, dry_run, run, fs, fs0, printed, writes, rrVars,
                   results, report>>

\* main, lines 178-183: one iteration; the ASL sidecars come first, in any
\* order glob may yield them, then the M0 sidecars.
UPM_Process ==
    /\ script = "update_perf_metadata" /\ pc = "loop"
    /\ \E jp \in todo :
         /\ EndsWith(jp.name, M0JsonEnd) => todo \cap PerfJsons(fs, AslJsonEnd) = {}
         /\ LET r == IF EndsWith(jp.name, AslJsonEnd) THEN upm_update_asl_json(fs, jp)
                     ELSE update_m0_json(fs, jp)
            IN  /\ fs' = [fs EXCEPT ![jp] = r.content]
                /\ writes' = IF r.wrote THEN writes \cup {jp} ELSE writes
                /\ printed' = IF r.wrote
                              THEN printed \cup {[file |-> jp, message |-> "Updated"]}
                              ELSE printed
                /\ warned' = IF r.error # ""
                             THEN warned \cup {[file |-> jp, message |-> r.error]}
                             ELSE warned
                /\ results' = (jp :> r.error) @@ results
         /\ todo' = todo \ {jp}
         /\ pc' = IF todo \ {jp} = {} THEN "done" ELSE "loop"
    /\ UNCHANGED <<script, args, dry_run, run, fs0, rrVars, report>>

NextUPM == UPM_Start \/ UPM_Process \/ RunAgain

SpecUPM == InitUPM /\ [][NextUPM]_vars

(***************************************************************************)
(* fix_intendedfor.py                                                      *)
(*                                                                         *)
(* An IntendedFor entry is a sequence of atoms; a BIDS URI prefix          *)
(* "bids::sub-<label>/" is one atom.                                       *)
(***************************************************************************)
UriAtoms == {"bids::sub-01/"}

\* bids_uri_pattern.sub('', path)
bids_uri_pattern_sub(path) == SelectSeq(path, LAMBDA a : a \notin UriAtoms)

\* os.walk with `'fmap' in root` and file.endswith('.json'): the files visited.
FmapJsons(f) ==
    {p \in DOMAIN f : EndsWith(p.name, JSON) /\ \E i \in DOMAIN p.dir : p.dir[i] = <<"fmap">>}

\* The body of the loop of remove_bids_uri_from_intendedfor for one file
\* (lines 18-34); json.load is not guarded, so a malformed file raises.
remove_bids_uri(f, json_path) ==
    LET data == f[json_path]
        intended_for == data.IntendedFor
    IN  IF ~data.ok THEN [content |-> data, wrote |-> FALSE, crashed |-> TRUE]
        ELSE IF intended_for.t = "absent"
        THEN [content |-> data, wrote |-> FALSE, crashed |-> FALSE]
        ELSE [content |->
                 IF intended_for.t \in {"list", "str"}
                 THEN [data EXCEPT !.IntendedFor.v =
                          [i \in DOMAIN intended_for.v |->
                              bids_uri_pattern_sub(intended_for.v[i])]]
                 ELSE data,
              wrote |-> TRUE, crashed |-> FALSE]

\* The fieldmap sidecars of the initial trees.
FiJson(n) == [dir |-> DataDir("ses", "fmap"), name |-> <<"sub-01", "_ses-01", n, "_epi", ".json">>]
FiFunc == [dir |-> DataDir("ses", "func"), name |-> <<"sub-01", "_ses-01", "_bold", ".json">>]

UriEntry(uri) == uri \o <<"ses-01", "/", "func", "/", "sub-01", "_", "bold", ".nii", ".gz">>

FiContent(p, ok, intended_for) == [orig |-> p, ok |-> ok, IntendedFor |-> intended_for]

FiContents(p) ==
    {FiContent(p, FALSE, JAbsent)}
    \cup {FiContent(p, TRUE, i) :
            i \in {JAbsent, JNum(1), JStr(<<UriEntry(<<"bids::sub-01/">>)>>),
                   JList(<<>>), JList(<<UriEntry(<<>>)>>),
                   JList(<<UriEntry(<<"bids::sub-01/">>), UriEntry(<<>>)>>)}}

FITrees ==
    {a @@ b @@ c :
        a \in Opt(FiJson("_run-1"), FiContents(FiJson("_run-1"))),
        b \in Opt(FiJson("_run-2"), FiContents(FiJson("_run-2"))),
        c \in Opt(FiFunc, {FiContent(FiFunc, TRUE, JStr(<<UriEntry(<<"bids::sub-01/">>)>>))})}

InitFI ==
    /\ script = "fix_intendedfor"
    /\ args = <<>>
    /\ dry_run = FALSE
    /\ run = 1
    /\ pc = "start"
    /\ fs \in FITrees
    /\ fs0 = fs
    /\ warned = {}
    /\ printed = {}
    /\ writes = {}
    /\ RRIdle
    /\ FilesIdle

\* remove_bids_uri_from_intendedfor, line 14: the walk begins.
FI_Start ==
    /\ script = "fix_intendedfor" /\ pc = "start"
    /\ todo' = FmapJsons(fs)
    /\ pc' = IF FmapJsons(fs) = {} THEN "done" ELSE "loop"
    /\ UNCHANGED <<script, args, dry_run, run, fs, fs0, warned, printed, writes, rrVars,
                   results, report>>

\* Lines 16-34: the next file, in any order the directory listing may have.
FI_Process ==
    /\ script = "fix_intendedfor" /\ pc = "loop"
    /\ \E jp \in todo :
         LET r == remove_bids_uri(fs, jp)
         IN  /\ fs' = [fs EXCEPT ![jp] = r.content]
             /\ writes' = IF r.wrote THEN writes \cup {jp} ELSE writes
             /\ printed' = IF r.wrote
                           THEN printed \cup {[file |-> jp, message |-> "Updated"]}
                           ELSE printed
             /\ todo' = todo \ {jp}
             /\ IF r.crashed
                THEN /\ pc' = "crashed"
                     /\ UNCHANGED results
                ELSE /\ pc' = IF todo \ {jp} = {} THEN "done" ELSE "loop"
                     /\ results' = (jp :> r.wrote) @@ results
    /\ UNCHANGED <<script, args, dry_run, run, fs0, warned, rrVars, report>>

NextFI == FI_Start \/ FI_Process \/ RunAgain

SpecFI == InitFI /\ [][NextFI]_vars

(***************************************************************************)
(* The scripts that rewrite JSON sidecars, and the sidecar field editors.  *)
(***************************************************************************)
InitJson == InitRR \/ InitRAT \/ InitBS \/ InitUPM \/ InitFI

NextJson ==
    \/ RR_Plan \/ RR_Apply \/ RR_UpdateFmap
    \/ RAT_Start \/ RAT_Process \/ RAT_Report
    \/ BS_Start \/ BS_Process \/ BS_Summary
    \/ UPM_Start \/ UPM_Process
    \/ FI_Start \/ FI_Process

SpecJson == InitJson /\ [][NextJson]_vars

InitEditors == InitFAOV \/ InitUPM \/ InitRAT \/ InitBS

NextEditors ==
    \/ FAOV_Start \/ FAOV_Process
    \/ UPM_Start \/ UPM_Process
    \/ RAT_Start \/ RAT_Process \/ RAT_Report
    \/ BS_Start \/ BS_Process \/ BS_Summary
    \/ RunAgain

SpecEditors == InitEditors /\ [][NextEditors]_vars

\* The JSON files the per-file script running visits, on the initial tree.
Batch ==
    CASE script = "round_AcquisitionTime" -> find_json_files(fs0)
      [] script = "set_background_suppression_true" -> iter_asl_json_files(fs0)
      [] script = "update_perf_metadata" ->
            PerfJsons(fs0, AslJsonEnd) \cup PerfJsons(fs0, M0JsonEnd)
      [] script = "fix_intendedfor" -> FmapJsons(fs0)
      [] OTHER -> {}

\* The file cannot be read or parsed as JSON.
Unreadable(c) ==
    IF script = "set_background_suppression_true" THEN c.top = "unreadable" ELSE ~c.ok

\* The file during whose processing an exception escaped.
CrashedOn == IF pc = "crashed" THEN Batch \ (todo \cup DOMAIN results) ELSE {}

\* The running script has printed or written a line that names the file as
\* unreadable.
ReportedUnreadable(p) ==
    CASE script = "round_AcquisitionTime" -> \E l \in report : l.file = p
      [] script = "set_background_suppression_true" ->
            [file |-> p, message |-> "ERROR reading"] \in printed
      [] script = "update_perf_metadata" ->
            [file |-> p, message |-> "Could not decode JSON"] \in warned
      [] OTHER -> FALSE

\* What C7 says of the per-file scripts in the list S.
IsolatesUnreadable(S) ==
    (script \in S /\ run = 1) =>
        \A p \in Batch :
            Unreadable(fs0[p]) =>
                /\ p \notin CrashedOn
                /\ fs[p] = fs0[p]
                /\ (pc = "done" => ReportedUnreadable(p))
                /\ (pc = "done" => Batch \subseteq DOMAIN results)

\* What C7 says of remove_run_and_fix_intendedfor, whose fieldmap sidecars
\* are all handled in one step: each one it could not read is named in a
\* warning and holds what it held before.
RemoveRunIsolatesUnreadable ==
    (script = "remove_run" /\ pc = "done") =>
        \A j \in DOMAIN upd_log :
            ~upd_log[j].read =>
                /\ [kind |-> "json-unreadable", src |-> j, dst |-> j] \in warned
                /\ \E q \in DOMAIN fs0 : fs0[q] = fs[j]

\* C7: in remove_run_and_fix_intendedfor, round_AcquisitionTime,
\* set_background_suppression_true, update_perf_metadata and fix_intendedfor
\* a JSON file that cannot be read or parsed is reported, is left unchanged,
\* and does not stop the run: every other JSON file of the batch is still
\* processed.
C7_UnreadableJsonIsolated ==
    /\ RemoveRunIsolatesUnreadable
    /\ IsolatesUnreadable({"round_AcquisitionTime", "set_background_suppression_true",
                           "update_perf_metadata", "fix_intendedfor"})

\* The part of C7 the code does satisfy: remove_run_and_fix_intendedfor,
\* set_background_suppression_true and update_perf_metadata.
C7_HoldsForThree ==
    /\ RemoveRunIsolatesUnreadable
    /\ IsolatesUnreadable({"set_background_suppression_true", "update_perf_metadata"})

\* C8: running fix_asl_odd_volumes, update_perf_metadata,
\* round_AcquisitionTime or set_background_suppression_true a second time on
\* the tree the first run left writes no file.
C8_SecondRunWritesNothing ==
    (script \in {"fix_asl_odd_volumes", "update_perf_metadata", "round_AcquisitionTime",
                 "set_background_suppression_true"}
     /\ ~dry_run /\ run = 2) => writes = {}

\* The part of C8 the code does satisfy: round_AcquisitionTime and
\* set_background_suppression_true, and update_perf_metadata on sidecars
\* without NaN.
NoNaN ==
    \A p \in DOMAIN fs0 :
        /\ fs0[p].NumVolumes.t # "nan"
        /\ fs0[p].RepetitionTime.t # "nan"

C8_HoldsForThree ==
    (/\ script \in {"update_perf_metadata", "round_AcquisitionTime",
                    "set_background_suppression_true"}
     /\ script = "update_perf_metadata" => NoNaN
     /\ ~dry_run /\ run = 2) => writes = {}

(***************************************************************************)
(* C11: what set_background_suppression_true changes.                      *)
(***************************************************************************)
\* The five letters of "false", each in either case.
C11_Letters == <<{"f", "F"}, {"a", "A"}, {"l", "L"}, {"s", "S"}, {"e", "E"}>>

\* chars is "false" in any case, between whitespace only.
C11_SpellsFalse(chars) ==
    \E i \in 0..Len(chars) :
        /\ i + 5 <= Len(chars)
        /\ \A k \in 1..i : chars[k] \in Whitespace
        /\ \A k \in 1..5 : chars[i + k] \in C11_Letters[k]
        /\ \A k \in (i + 6)..Len(chars) : chars[k] \in Whitespace

\* The sidecar content holds a BackgroundSuppression that is the boolean
\* false or a string spelling false.
C11_HoldsFalse(c) ==
    /\ c.top = "dict" /\ c.has
    /\ \/ c.BackgroundSuppression = Bool(FALSE)
       \/ /\ c.BackgroundSuppression.t = "str"
          /\ C11_SpellsFalse(c.BackgroundSuppression.s)

\* A path the script considers: *_asl.json below a perf directory and not
\* below derivatives.
C11_Considered(p) ==
    /\ Len(p.name) >= 2
    /\ SubSeq(p.name, Len(p.name) - 1, Len(p.name)) = <<"_asl", ".json">>
    /\ <<"perf">> \in Range(p.dir)
    /\ <<"derivatives">> \notin Range(p.dir)

\* C11: set_background_suppression_true changes a sidecar only when it is a
\* *_asl.json under perf/ outside derivatives/ whose BackgroundSuppression is
\* the boolean false or a string equal to "false" ignoring case and
\* surrounding whitespace; the change sets that field to the boolean true and
\* alters nothing else; every other file is neither written nor changed; and
\* a completed real run has changed every such sidecar.
C11_OnlyFalseBecomesTrue ==
    script = "set_background_suppression_true" =>
        /\ DOMAIN fs = DOMAIN fs0
        /\ \A p \in DOMAIN fs :
            /\ (p \in writes \/ fs[p] # fs0[p]) =>
                  /\ ~dry_run
                  /\ C11_Considered(p)
                  /\ C11_HoldsFalse(fs0[p])
                  /\ fs[p] = [fs0[p] EXCEPT !.BackgroundSuppression = Bool(TRUE)]
            /\ (pc = "done" /\ ~dry_run /\ C11_Considered(p) /\ C11_HoldsFalse(fs0[p])) =>
                  fs[p] = [fs0[p] EXCEPT !.BackgroundSuppression = Bool(TRUE)]

\* A completed real run that set a padded upper-case "FALSE" string to true,
\* left a sidecar under func/ with a false value alone, and left one under
\* derivatives/ alone.
C11_Witness ==
    /\ script = "set_background_suppression_true" /\ pc = "done" /\ ~dry_run /\ run = 1
    /\ fs0[AslJson1].top = "dict" /\ fs0[AslJson1].has
    /\ fs0[AslJson1].BackgroundSuppression = Str(<<" ", "F", "A", "L", "S", "E", "\n">>)
    /\ fs[AslJson1].BackgroundSuppression = Bool(TRUE)
    /\ AslJson1 \in writes
    /\ AslJsonFunc \in DOMAIN fs /\ fs[AslJsonFunc] = fs0[AslJsonFunc]
    /\ AslJsonDeriv \in DOMAIN fs /\ fs[AslJsonDeriv] = fs0[AslJsonDeriv]
    /\ writes = {AslJson1}

(***************************************************************************)
(* C12: what fix_asl_odd_volumes leaves behind.                            *)
(***************************************************************************)
\* The sidecar process_asl uses for the image p of the tree f (lines 78-88).
C12_SidecarOf(f, p) ==
    LET stem == DropLast(p.name, 2)
        guess == with_name(p, stem \o AslJsonEnd)
    IN  IF Exists(f, guess) THEN guess ELSE with_name(p, stem \o JSON)

\* The images with a sidecar of valid JSON that a real run has processed to
\* the end of process_asl's odd or even branch.
C12_Processed ==
    {p \in DOMAIN fs :
        /\ \E m \in {"Trimmed last volume", "Even volume count"} :
              [file |-> p, message |-> m] \in printed
        /\ Exists(fs, C12_SidecarOf(fs, p))
        /\ fs[C12_SidecarOf(fs, p)].ok}

\* Image, sidecar and table of the image p agree in the tree f.
C12_Agree(f, p, first_type) ==
    LET json_path == C12_SidecarOf(f, p)
        tsv_path == TsvOf(json_path)
    IN  /\ f[p].nvols % 2 = 0
        /\ Exists(f, json_path)
        /\ f[json_path].NumVolumes = f[p].nvols
        /\ f[json_path].TotalAcquiredPairs = f[json_path].NumVolumes
        /\ Exists(f, tsv_path)
        /\ Len(f[tsv_path].lines) = f[json_path].NumVolumes + 1
        /\ f[tsv_path].lines[1] = "volume_type"
        /\ \A i \in 1..f[json_path].NumVolumes :
              f[tsv_path].lines[i + 1] =
                 (IF i % 2 = 1 THEN first_type
                  ELSE IF first_type = "label" THEN "control" ELSE "label")

\* C12: after a real run of fix_asl_odd_volumes has processed an ASL image
\* that has a sidecar, the image has an even number of volumes, the sidecar's
\* NumVolumes is that number and its TotalAcquiredPairs is half of it, and
\* aslcontext.tsv has NumVolumes rows alternating from the configured first
\* label.
C12_ImageSidecarTableAgree ==
    (script = "fix_asl_odd_volumes" /\ ~dry_run) =>
        \A p \in C12_Processed : C12_Agree(fs, p, args.first)

\* The count process_asl would take from the sidecar or the table before the
\* run is absent or is the loadable 4D image's own number of volumes.
C12_CountFromImage(p) ==
    LET n == get_num_volumes_from_json(fs0, C12_SidecarOf(fs0, p))
    IN  /\ fs0[p].ok /\ fs0[p].ndim = 4
        /\ n \in {Absent, fs0[p].nvols}

\* The part of C12 the code does satisfy: the three files agree whenever the
\* count the script starts from is the image's own.
C12_AgreeWhenCountIsTheImages ==
    (script = "fix_asl_odd_volumes" /\ ~dry_run) =>
        \A p \in C12_Processed : C12_CountFromImage(p) => C12_Agree(fs, p, args.first)

\* An odd image was trimmed and the three files agree, starting with control.
C12_TrimmedAndAgree ==
    /\ script = "fix_asl_odd_volumes" /\ ~dry_run /\ run = 1 /\ pc = "done"
    /\ args.first = "control"
    /\ \E p \in C12_Processed :
        /\ fs0[p].nvols = 3 /\ fs[p].nvols = 2
        /\ C12_CountFromImage(p)
        /\ C12_Agree(fs, p, "control")

(***************************************************************************)
(* cleanup_multiruns.py                                                    *)
(*                                                                         *)
(* A file's content is a record with `tracked`: whether git has the file   *)
(* in its index.  `git mv` fails (CalledProcessError under check=True)     *)
(* when the source is not tracked or the destination exists, `git rm`      *)
(* when the file is not tracked.  The table read from the TSV is           *)
(* args.tsv: whether it can be read, its columns and its rows in order; a  *)
(* DROP cell is a number or NaN (an empty cell).                           *)
(***************************************************************************)
\* r"_run-0\d+": the tokens it matches.
Run0Toks == {"_run-01", "_run-02"}

\* re.sub(r"_run-0\d+_", "_", name): a match needs the underscore that opens
\* the next entity token, and a token whose underscore the previous match
\* consumed cannot start the next match.
cm_run_sub(name) ==
    LET RECURSIVE Scan(_, _)
        Scan(i, consumed) ==
            IF i > Len(name) THEN <<>>
            ELSE IF /\ ~consumed /\ name[i] \in Run0Toks
                    /\ i < Len(name) /\ name[i + 1] \notin DotToks
                 THEN Scan(i + 1, TRUE)
                 ELSE <<name[i]>> \o Scan(i + 1, FALSE)
    IN  Scan(1, FALSE)

\* re.sub(r"\.nii\.gz$", ".json", file_path)
cm_json_path(file_path) ==
    IF EndsWith(file_path.name, NIIGZ)
    THEN with_name(file_path, DropLast(file_path.name, 2) \o JSON)
    ELSE file_path

\* subprocess.run(["git", "mv", src, dst], check=True)
cm_git_mv(f, src, dst) ==
    IF Exists(f, src) /\ f[src].tracked /\ ~Exists(f, dst)
    THEN [ok |-> TRUE, fs |-> Move(f, src, dst)]
    ELSE [ok |-> FALSE, fs |-> f]

\* subprocess.run(["git", "rm", path], check=True)
cm_git_rm(f, path) ==
    IF Exists(f, path) /\ f[path].tracked
    THEN [ok |-> TRUE, fs |-> [p \in DOMAIN f \ {path} |-> f[p]]]
    ELSE [ok |-> FALSE, fs |-> f]

\* The loop without the try / except around the git commands.
row_aborts_Uncaught(outcome) ==
    outcome \in {"Error removing", "Error renaming", "Error processing"}

\* Whether an exception leaves the row loop: CalledProcessError is caught
\* inside the loop body (cleanup_multiruns lines 50-51 and 79-80,
\* rm_runentity_intendedfor lines 163-164), the other outcomes `continue`.
row_aborts(outcome) == FALSE

\* What one iteration of process_files' loop did.
RowOutcome(row, outcome, tree, moved, removed) ==
    [row |-> row, outcome |-> outcome, fs |-> tree, moved |-> moved, removed |-> removed]

\* process_files, lines 38-51: DROP == 1.
cm_remove(f, row, file_path, json_path) ==
    LET r1 == cm_git_rm(f, file_path)
        r2 == cm_git_rm(r1.fs, json_path)
    IN  IF ~r1.ok THEN RowOutcome(row, "Error removing", f, {}, {})
        ELSE IF ~Exists(r1.fs, json_path)
             THEN RowOutcome(row, "Successfully removed", r1.fs, {}, {file_path})
        ELSE IF ~r2.ok THEN RowOutcome(row, "Error removing", r1.fs, {}, {file_path})
        ELSE RowOutcome(row, "Successfully removed sidecar", r2.fs, {},
                        {file_path, json_path})

\* process_files, lines 53-80: DROP == 0.
cm_rename(f, row, file_path, json_path) ==
    LET new_file_path == with_name(file_path, cm_run_sub(file_path.name))
        new_json_path == with_name(json_path, cm_run_sub(json_path.name))
        r1 == cm_git_mv(f, file_path, new_file_path)
        r2 == cm_git_mv(r1.fs, json_path, new_json_path)
        m1 == {[src |-> file_path, dst |-> new_file_path]}
        m2 == {[src |-> json_path, dst |-> new_json_path]}
    IN  IF Exists(f, new_file_path)
        THEN RowOutcome(row, "Warning: Destination file already exists", f, {}, {})
        ELSE IF ~r1.ok THEN RowOutcome(row, "Error renaming", f, {}, {})
        ELSE IF ~Exists(r1.fs, json_path)
             THEN RowOutcome(row, "Successfully renamed", r1.fs, m1, {})
        ELSE IF ~r2.ok THEN RowOutcome(row, "Error renaming", r1.fs, m1, {})
        ELSE RowOutcome(row, "Successfully renamed sidecar", r2.fs, m1 \cup m2, {})

\* process_files, lines 22-80: one row of the table.
cm_process_row(f, row) ==
    LET file_path == row.FilePath
        json_path == cm_json_path(file_path)
    IN  IF row.DROP.t = "nan" \/ (PyNe(row.DROP, JNum(0)) /\ PyNe(row.DROP, JNum(1)))
        THEN RowOutcome(row, "skipped", f, {}, {})
        ELSE IF ~Exists(f, file_path)
             THEN RowOutcome(row, "Warning: File not found", f, {}, {})
        ELSE IF row.DROP = JNum(1) THEN cm_remove(f, row, file_path, json_path)
        ELSE cm_rename(f, row, file_path, json_path)

\* The files of the initial trees: a bold series with a run-01 token, one
\* with a run-1 token, the run-less name both would get, and an uncompressed
\* T1w image with a run-01 token.
CmName(runtok, ext) ==
    <<"sub-01">> \o (IF runtok = "" THEN <<>> ELSE <<runtok>>)
                 \o <<"_task-rest", "_bold">> \o ext

CmFunc(runtok, ext) == [dir |-> DataDir("noses", "func"), name |-> CmName(runtok, ext)]

CmT1w(ext) ==
    [dir |-> DataDir("noses", "anat"), name |-> <<"sub-01", "_run-01", "_T1w">> \o ext]

GitFile(p, tracked) == [orig |-> p, tracked |-> tracked]

CMTrees ==
    {a @@ b @@ c @@ d
       @@ (CmFunc("_run-1", NIIGZ) :> GitFile(CmFunc("_run-1", NIIGZ), TRUE))
       @@ (CmT1w(NII) :> GitFile(CmT1w(NII), TRUE))
       @@ (CmT1w(JSON) :> GitFile(CmT1w(JSON), TRUE)) :
        a \in Opt(CmFunc("_run-01", NIIGZ),
                  {GitFile(CmFunc("_run-01", NIIGZ), t) : t \in BOOLEAN}),
        b \in Opt(CmFunc("_run-01", JSON),
                  {GitFile(CmFunc("_run-01", JSON), t) : t \in BOOLEAN}),
        c \in Opt(CmFunc("", NIIGZ), {GitFile(CmFunc("", NIIGZ), TRUE)}),
        d \in Opt(CmFunc("", JSON), {GitFile(CmFunc("", JSON), TRUE)})}

\* The rows of the table: DROP is 0, 1, 2 or empty.
MaxRows == 2

DropValues == {JNum(0), JNum(1), JNum(2), JNaN}

CmRows ==
    {[DROP |-> d, FilePath |-> p] :
        d \in DropValues, p \in {CmFunc("_run-01", NIIGZ), CmFunc("_run-1", NIIGZ)}}
    \cup {[DROP |-> d, FilePath |-> CmT1w(NII)] : d \in {JNum(0), JNum(1)}}

Table2(cols, rows) == [readable |-> TRUE, columns |-> cols, rows |-> rows]

\* A table with both columns and two rows that name existing files.
CmFullTable ==
    Table2({"DROP", "FilePath"},
           <<[DROP |-> JNum(0), FilePath |-> CmFunc("_run-01", NIIGZ)],
             [DROP |-> JNum(1), FilePath |-> CmT1w(NII)]>>)

CmTables ==
    {Table2({"DROP", "FilePath"}, rows) : rows \in SeqsUpTo(CmRows, MaxRows)}
    \cup {[CmFullTable EXCEPT !.readable = FALSE],
          [CmFullTable EXCEPT !.columns = {"FilePath"}],
          [CmFullTable EXCEPT !.columns = {"DROP"}]}

InitCM ==
    /\ script = "cleanup_multiruns"
    /\ \E tree \in CMTrees, table \in CmTables :
          \/ /\ args = [is_dir |-> TRUE, is_file |-> TRUE, tsv |-> table]
             /\ fs = tree
          \/ /\ table.columns = {"DROP"}
             /\ args = [is_dir |-> TRUE, is_file |-> FALSE, tsv |-> table]
             /\ fs = tree
          \/ /\ table.columns = {"DROP"}
             /\ args = [is_dir |-> FALSE, is_file |-> TRUE, tsv |-> table]
             /\ fs = <<>>
    /\ dry_run = FALSE
    /\ run = 1
    /\ pc = "start"
    /\ fs0 = fs
    /\ warned = {}
    /\ printed = {}
    /\ writes = {}
    /\ RRIdle
    /\ todo = <<>>
    /\ results = <<>>
    /\ report = {}

\* The column test with "and" for "or".
cm_columns_missing_Both(columns) == "DROP" \notin columns /\ "FilePath" \notin columns

\* process_files, line 17: 'DROP' not in df.columns or 'FilePath' not in df.columns
cm_columns_missing(columns) == "DROP" \notin columns \/ "FilePath" \notin columns

\* main, lines 91-100, and process_files, lines 9-19: the inputs are
\* validated, the table is read and its columns are checked.
CM_Main ==
    /\ script = "cleanup_multiruns" /\ pc = "start"
    /\ LET tsv == args.tsv
           error ==
               IF ~args.is_dir THEN "Error: BIDS directory not found"
               ELSE IF ~args.is_file THEN "Error: TSV file not found"
               ELSE IF ~tsv.readable THEN "Error reading TSV file"
               ELSE IF cm_columns_missing(tsv.columns)
                    THEN "Error: TSV file must contain 'DROP' and 'FilePath' columns"
               ELSE ""
       IN  /\ warned' = IF error = "" THEN warned ELSE warned \cup {error}
           /\ todo' = IF error = "" THEN tsv.rows ELSE <<>>
           /\ pc' = IF ~args.is_dir \/ ~args.is_file THEN "error"
                    ELSE IF error # "" \/ tsv.rows = <<>> THEN "complete"
                    ELSE "loop"
    /\ UNCHANGED <<script, args, dry_run, run, fs, fs0, printed, writes, rrVars,
                   results, report>>

\* process_files, lines 22-80: the next row of the table.
CM_Row ==
    /\ script = "cleanup_multiruns" /\ pc = "loop"
    /\ LET r == cm_process_row(fs, Head(todo))
       IN  /\ fs' = r.fs
           /\ results' = Append(results, [row |-> r.row, outcome |-> r.outcome,
                                          moved |-> r.moved, removed |-> r.removed])
           /\ printed' = printed \cup {[file |-> r.row.FilePath, message |-> r.outcome]}
           /\ writes' = writes \cup {m.dst : m \in r.moved}
    /\ todo' = Tail(todo)
    /\ pc' = IF row_aborts(cm_process_row(fs, Head(todo)).outcome) THEN "crashed"
             ELSE IF Tail(todo) = <<>> THEN "complete" ELSE "loop"
    /\ UNCHANGED <<script, args, dry_run, run, fs0, warned, rrVars, report>>

\* main, lines 103-104: process_files has returned.
CM_Complete ==
    /\ script = "cleanup_multiruns" /\ pc = "complete"
    /\ report' = {"Processing complete!"}
    /\ pc' = "done"
    /\ UNCHANGED <<script, args, dry_run, run, fs, fs0, warned, printed, writes, rrVars,
                   todo, results>>

NextCM == CM_Main \/ CM_Row \/ CM_Complete

SpecCM == InitCM /\ [][NextCM]_vars

(***************************************************************************)
(* C13, C14: what cleanup_multiruns does for a row.                        *)
(***************************************************************************)
\* The run tokens (_run-<digits>) of the model's names.
C13_RunTokens == RunToks \cup Run0Toks

C13_Stripped(name) == SelectSeq(name, LAMBDA t : t \notin C13_RunTokens)

\* The JSON sidecar of an image: the same name with .nii or .nii.gz replaced
\* by .json.
C13_Sidecar(p) ==
    IF EndsWith(p.name, NIIGZ) THEN with_name(p, DropLast(p.name, 2) \o JSON)
    ELSE with_name(p, DropLast(p.name, 1) \o JSON)

\* The row about to be processed has DROP d and names an existing, tracked
\* file whose sidecar, if present, is tracked too.
C13_RowReady(d) ==
    /\ script = "cleanup_multiruns" /\ pc = "loop"
    /\ Head(todo).DROP = JNum(d)
    /\ Exists(fs, Head(todo).FilePath)
    /\ fs[Head(todo).FilePath].tracked
    /\ Exists(fs, C13_Sidecar(Head(todo).FilePath))
          => fs[C13_Sidecar(Head(todo).FilePath)].tracked

\* Processing the row moves the file p, and its sidecar if present, to the
\* name without the run token.
C13_Moved(p) ==
    LET dst == with_name(p, C13_Stripped(p.name))
        sc == C13_Sidecar(p)
        sc_dst == with_name(sc, C13_Stripped(sc.name))
    IN  /\ ~Exists(fs', p) /\ Exists(fs', dst) /\ fs'[dst] = fs[p]
        /\ Exists(fs, sc) =>
              (~Exists(fs', sc) /\ Exists(fs', sc_dst) /\ fs'[sc_dst] = fs[sc])

C13_FreeDestination(p) ==
    /\ ~Exists(fs, with_name(p, C13_Stripped(p.name)))
    /\ ~Exists(fs, with_name(C13_Sidecar(p), C13_Stripped(C13_Sidecar(p).name)))

\* C13: in cleanup_multiruns, a row with DROP == 0 whose file exists and
\* whose name holds a run token (_run-<digits>) has the file moved by git mv
\* to the same path without the run token, and its JSON sidecar, if present,
\* moved the same way (the files being tracked and the new names free).
C13_RunTokenStripped ==
    [][(/\ C13_RowReady(0)
        /\ \E t \in Range(Head(todo).FilePath.name) : t \in C13_RunTokens
        /\ C13_FreeDestination(Head(todo).FilePath))
       => C13_Moved(Head(todo).FilePath)]_vars

\* The part of C13 the code does satisfy: a .nii.gz image whose run token is
\* _run-0<digits>.
C13_Run0NiiGzStripped ==
    [][(/\ C13_RowReady(0)
        /\ \E t \in Range(Head(todo).FilePath.name) : t \in Run0Toks
        /\ EndsWith(Head(todo).FilePath.name, NIIGZ)
        /\ C13_FreeDestination(Head(todo).FilePath))
       => C13_Moved(Head(todo).FilePath)]_vars

\* The run-01 image and its sidecar have been moved to the run-less names.
C13_Run01Renamed ==
    /\ script = "cleanup_multiruns" /\ pc = "done"
    /\ Exists(fs0, CmFunc("_run-01", NIIGZ)) /\ Exists(fs0, CmFunc("_run-01", JSON))
    /\ ~Exists(fs, CmFunc("_run-01", NIIGZ)) /\ ~Exists(fs, CmFunc("_run-01", JSON))
    /\ ~Exists(fs0, CmFunc("", NIIGZ)) /\ ~Exists(fs0, CmFunc("", JSON))
    /\ Exists(fs, CmFunc("", NIIGZ)) /\ Exists(fs, CmFunc("", JSON))

\* Processing the row removes the file p and its sidecar, if present.
C14_Removed(p) ==
    /\ ~Exists(fs', p)
    /\ ~Exists(fs', C13_Sidecar(p))
    /\ \A q \in DOMAIN fs \ {p, C13_Sidecar(p)} : Exists(fs', q) /\ fs'[q] = fs[q]

\* C14: in cleanup_multiruns, a row with DROP == 1 whose file exists has the
\* file and its JSON sidecar, if present, removed with git rm (the files
\* being tracked); a row whose DROP is empty or neither 0 nor 1 renames and
\* removes nothing.
C14_DropOneRemoves ==
    [][/\ C13_RowReady(1) => C14_Removed(Head(todo).FilePath)
       /\ (/\ script = "cleanup_multiruns" /\ pc = "loop"
           /\ Head(todo).DROP \notin {JNum(0), JNum(1)}) => fs' = fs]_vars

\* The part of C14 the code does satisfy: .nii.gz images, and rows with
\* another DROP value.
C14_DropOneRemovesNiiGz ==
    [][/\ (C13_RowReady(1) /\ EndsWith(Head(todo).FilePath.name, NIIGZ))
            => C14_Removed(Head(todo).FilePath)
       /\ (/\ script = "cleanup_multiruns" /\ pc = "loop"
           /\ Head(todo).DROP \notin {JNum(0), JNum(1)}) => fs' = fs]_vars

\* A DROP == 1 row removed the run-01 image and its sidecar, and a row with
\* DROP == 2 or an empty DROP was passed over.
C14_RemovedAndSkipped ==
    /\ script = "cleanup_multiruns" /\ pc = "done"
    /\ Len(results) = 2
    /\ \E i, j \in DOMAIN results :
        /\ results[i].row.DROP = JNum(1)
        /\ results[i].removed = {CmFunc("_run-01", NIIGZ), CmFunc("_run-01", JSON)}
        /\ results[j].row.DROP \in {JNum(2), JNaN}
        /\ results[j].outcome = "skipped"
    /\ DOMAIN fs = DOMAIN fs0 \ {CmFunc("_run-01", NIIGZ), CmFunc("_run-01", JSON)}

(***************************************************************************)
(* rm_runentity_intendedfor.py                                             *)
(*                                                                         *)
(* A file's content is a record: `tracked` as for cleanup_multiruns; for a *)
(* fieldmap JSON `top` ("dict" or "unreadable"), `has` (the IntendedFor    *)
(* key is present) and IntendedFor, a sequence of subject-relative paths.  *)
(* An image or an image sidecar has top "file".                            *)
(***************************************************************************)
target_patterns ==
    {"datatype-func_run-02_suffix-bold_task-rest_acquisition-multiband__1",
     "datatype-func_run-02_suffix-bold_task-face_acquisition-singleband__1",
     "datatype-func_run-02_suffix-bold_task-fracback_acquisition-singleband__1"}

\* re.sub(r"_run-0\d+", "", name)
rm_run0_sub(name) == SelectSeq(name, LAMBDA t : t \notin Run0Toks)

\* re.sub(r"_run-\d+", "", path), on a relative path whose directories hold
\* no run token.
rm_run_sub(path) ==
    [path EXCEPT !.name = SelectSeq(path.name, LAMBDA t : t \notin RunToks \cup Run0Toks)]

\* re.search(r"_run-(\d+)", old_rel_path): the first run token, "" for None.
rm_run_match(name) ==
    LET I == {i \in DOMAIN name : name[i] \in RunToks \cup Run0Toks}
    IN  IF I = {} THEN "" ELSE name[MinOf(I)]

\* f"_run-{run_number}_" in path: the token followed by an underscore.
rm_has_run(path, run_tok) ==
    \E i \in DOMAIN path.name :
        /\ path.name[i] = run_tok
        /\ i < Len(path.name) /\ path.name[i + 1] \notin DotToks

\* Lines 44-83 for one fieldmap JSON: the content written, or the content
\* left as it is.
rm_update_json(c, run_tok) ==
    IF c.top # "dict" \/ ~c.has THEN c
    ELSE [c EXCEPT !.IntendedFor =
             [i \in DOMAIN c.IntendedFor |->
                 IF rm_has_run(c.IntendedFor[i], run_tok)
                 THEN rm_run_sub(c.IntendedFor[i]) ELSE c.IntendedFor[i]]]

\* update_intended_for: the tree afterwards.  old_path is the FilePath of
\* the row; the fieldmaps are looked for in <subject>/ses-1/fmap.
update_intended_for(f, old_path) ==
    LET subject == IF old_path.dir # <<>> /\ old_path.dir[1] \in {<<s>> : s \in SubPrefixed}
                   THEN old_path.dir[1] ELSE <<>>
        fmap_dir == <<subject, <<"ses-1">>, <<"fmap">>>>
        run_tok == rm_run_match(old_path.name)
        json_files == {p \in DOMAIN f : p.dir = fmap_dir /\ EndsWith(p.name, JSON)}
    IN  IF subject = <<>> \/ ~IsDir(f, fmap_dir) \/ run_tok = "" THEN f
        ELSE [p \in DOMAIN f |->
                 IF p \in json_files THEN rm_update_json(f[p], run_tok) ELSE f[p]]

\* process_files, lines 115-164: one matching row.
rm_process_row(f, row) ==
    LET file_path == row.FilePath
        json_path == cm_json_path(file_path)
        new_file_path == with_name(file_path, rm_run0_sub(file_path.name))
        new_json_path == with_name(json_path, rm_run0_sub(json_path.name))
        r1 == cm_git_mv(f, file_path, new_file_path)
        r2 == cm_git_mv(r1.fs, json_path, new_json_path)
        m1 == {[src |-> file_path, dst |-> new_file_path]}
        m2 == {[src |-> json_path, dst |-> new_json_path]}
    IN  IF ~Exists(f, file_path) THEN RowOutcome(row, "Warning: File not found", f, {}, {})
        ELSE IF ~Exists(f, json_path)
             THEN RowOutcome(row, "Warning: JSON sidecar not found", f, {}, {})
        ELSE IF Exists(f, new_file_path)
             THEN RowOutcome(row, "Warning: Destination file already exists", f, {}, {})
        ELSE IF Exists(f, new_json_path)
             THEN RowOutcome(row, "Warning: Destination JSON already exists", f, {}, {})
        ELSE IF ~r1.ok THEN RowOutcome(row, "Error processing", f, {}, {})
        ELSE IF ~r2.ok THEN RowOutcome(row, "Error processing", r1.fs, m1, {})
        ELSE RowOutcome(row, "Successfully processed",
                        update_intended_for(r2.fs, file_path), m1 \cup m2, {})

\* The files of the initial trees: the run-02 rest series and its run-less
\* names, the run-02 face series, and one fieldmap JSON.
RmDir(datatype) == <<Sub, <<"ses-1">>, <<datatype>>>>

RmName(task, runtok, ext) ==
    <<"sub-01", "_ses-1", task>> \o (IF runtok = "" THEN <<>> ELSE <<runtok>>)
                                 \o <<"_bold">> \o ext

RmFunc(task, runtok, ext) == [dir |-> RmDir("func"), name |-> RmName(task, runtok, ext)]

\* The subject-relative form of a func path, as IntendedFor holds it.
RmRel(p) == [dir |-> Tail(p.dir), name |-> p.name]

RmFmap == [dir |-> RmDir("fmap"), name |-> <<"sub-01", "_ses-1", "_epi", ".json">>]

RmFile(p, tracked) ==
    [orig |-> p, tracked |-> tracked, top |-> "file", has |-> FALSE, IntendedFor |-> <<>>]

RmJson(p, top, has, entries) ==
    [orig |-> p, tracked |-> TRUE, top |-> top, has |-> has, IntendedFor |-> entries]

RmFmapContents ==
    {RmJson(RmFmap, "unreadable", FALSE, <<>>), RmJson(RmFmap, "dict", FALSE, <<>>)}
    \cup {RmJson(RmFmap, "dict", TRUE, e) :
            e \in {<<>>,
                   <<RmRel(RmFunc("_task-rest", "_run-02", NIIGZ))>>,
                   <<RmRel(RmFunc("_task-face", "_run-02", NIIGZ))>>,
                   <<RmRel(RmFunc("_task-rest", "_run-02", NIIGZ)),
                     RmRel(RmFunc("_task-face", "_run-02", NIIGZ))>>}}

RMTrees ==
    {a @@ b @@ c @@ d @@ j
       @@ (RmFunc("_task-face", "_run-02", NIIGZ)
             :> RmFile(RmFunc("_task-face", "_run-02", NIIGZ), TRUE))
       @@ (RmFunc("_task-face", "_run-02", JSON)
             :> RmFile(RmFunc("_task-face", "_run-02", JSON), TRUE)) :
        a \in Opt(RmFunc("_task-rest", "_run-02", NIIGZ),
                  {RmFile(RmFunc("_task-rest", "_run-02", NIIGZ), t) : t \in BOOLEAN}),
        b \in Opt(RmFunc("_task-rest", "_run-02", JSON),
                  {RmFile(RmFunc("_task-rest", "_run-02", JSON), TRUE)}),
        c \in Opt(RmFunc("_task-rest", "", NIIGZ),
                  {RmFile(RmFunc("_task-rest", "", NIIGZ), TRUE)}),
        d \in Opt(RmFunc("_task-rest", "", JSON),
                  {RmFile(RmFunc("_task-rest", "", JSON), TRUE)}),
        j \in Opt(RmFmap, RmFmapContents)}

RmRows ==
    {[KeyParamGroup |-> "datatype-func_run-02_suffix-bold_task-rest_acquisition-multiband__1",
      FilePath |-> RmFunc("_task-rest", "_run-02", NIIGZ)],
     [KeyParamGroup |-> "datatype-func_run-01_suffix-bold_task-rest_acquisition-multiband__1",
      FilePath |-> RmFunc("_task-rest", "_run-02", NIIGZ)],
     [KeyParamGroup |-> "datatype-func_run-02_suffix-bold_task-face_acquisition-singleband__1",
      FilePath |-> RmFunc("_task-face", "_run-02", NIIGZ)]}

\* A table with both columns and two rows that name existing files.
RmFullTable ==
    Table2({"KeyParamGroup", "FilePath"},
           <<[KeyParamGroup |->
                "datatype-func_run-02_suffix-bold_task-face_acquisition-singleband__1",
              FilePath |-> RmFunc("_task-face", "_run-02", NIIGZ)],
             [KeyParamGroup |->
                "datatype-func_run-02_suffix-bold_task-rest_acquisition-multiband__1",
              FilePath |-> RmFunc("_task-rest", "_run-02", NIIGZ)]>>)

RmTables ==
    {Table2({"KeyParamGroup", "FilePath"}, rows) : rows \in SeqsUpTo(RmRows, MaxRows)}
    \cup {[RmFullTable EXCEPT !.readable = FALSE],
          [RmFullTable EXCEPT !.columns = {"FilePath"}],
          [RmFullTable EXCEPT !.columns = {"KeyParamGroup"}]}

InitRM ==
    /\ script = "rm_runentity_intendedfor"
    /\ \E tree \in RMTrees, table \in RmTables :
          \/ /\ args = [is_dir |-> TRUE, is_file |-> TRUE, tsv |-> table]
             /\ fs = tree
          \/ /\ table.columns = {"FilePath"}
             /\ args = [is_dir |-> TRUE, is_file |-> FALSE, tsv |-> table]
             /\ fs = tree
          \/ /\ table.columns = {"FilePath"}
             /\ args = [is_dir |-> FALSE, is_file |-> TRUE, tsv |-> table]
             /\ fs = <<>>
    /\ dry_run = FALSE
    /\ run = 1
    /\ pc = "start"
    /\ fs0 = fs
    /\ warned = {}
    /\ printed = {}
    /\ writes = {}
    /\ RRIdle
    /\ todo = <<>>
    /\ results = <<>>
    /\ report = {}

\* process_files, line 101.
rm_columns_missing(columns) ==
    "KeyParamGroup" \notin columns \/ "FilePath" \notin columns

\* main, lines 174-181, and process_files, lines 93-112: the inputs are
\* validated, the table is read, its columns are checked and its rows are
\* filtered by KeyParamGroup.
RM_Main ==
    /\ script = "rm_runentity_intendedfor" /\ pc = "start"
    /\ LET tsv == args.tsv
           matching_rows == SelectSeq(tsv.rows, LAMBDA r : r.KeyParamGroup \in target_patterns)
           error ==
               IF ~args.is_dir THEN "Error: BIDS directory not found"
               ELSE IF ~args.is_file THEN "Error: TSV file not found"
               ELSE IF ~tsv.readable THEN "Error reading TSV file"
               ELSE IF rm_columns_missing(tsv.columns)
                    THEN "Error: TSV file must contain 'KeyParamGroup' and 'FilePath' columns"
               ELSE IF matching_rows = <<>> THEN "No matching rows found in the TSV file"
               ELSE ""
       IN  /\ warned' = IF error = "" THEN warned ELSE warned \cup {error}
           /\ todo' = IF error = "" THEN matching_rows ELSE <<>>
           /\ pc' = IF ~args.is_dir \/ ~args.is_file THEN "error"
                    ELSE IF error # "" THEN "complete"
                    ELSE "loop"
    /\ UNCHANGED <<script, args, dry_run, run, fs, fs0, printed, writes, rrVars,
                   results, report>>

\* process_files, lines 115-164: the next matching row.
RM_Row ==
    /\ script = "rm_runentity_intendedfor" /\ pc = "loop"
    /\ LET r == rm_process_row(fs, Head(todo))
       IN  /\ fs' = r.fs
           /\ results' = Append(results, [row |-> r.row, outcome |-> r.outcome,
                                          moved |-> r.moved, removed |-> r.removed])
           /\ printed' = printed \cup {[file |-> r.row.FilePath, message |-> r.outcome]}
           /\ writes' = writes \cup {m.dst : m \in r.moved}
                               \cup {p \in DOMAIN fs \cap DOMAIN r.fs : r.fs[p] # fs[p]}
    /\ todo' = Tail(todo)
    /\ pc' = IF row_aborts(rm_process_row(fs, Head(todo)).outcome) THEN "crashed"
             ELSE IF Tail(todo) = <<>> THEN "complete" ELSE "loop"
    /\ UNCHANGED <<script, args, dry_run, run, fs0, warned, rrVars, report>>

\* main, lines 184-185: process_files has returned.
RM_Complete ==
    /\ script = "rm_runentity_intendedfor" /\ pc = "complete"
    /\ report' = {"Processing complete!"}
    /\ pc' = "done"
    /\ UNCHANGED <<script, args, dry_run, run, fs, fs0, warned, printed, writes, rrVars,
                   todo, results>>

NextRM == RM_Main \/ RM_Row \/ RM_Complete

SpecRM == InitRM /\ [][NextRM]_vars

(***************************************************************************)
(* The two scripts driven by a curation TSV.                               *)
(***************************************************************************)
InitTsv == InitCM \/ InitRM

NextTsv == CM_Main \/ CM_Row \/ CM_Complete \/ RM_Main \/ RM_Row \/ RM_Complete

SpecTsv == InitTsv /\ [][NextTsv]_vars

(***************************************************************************)
(* C15, C16: errors in the TSV-driven scripts.                             *)
(***************************************************************************)
\* The columns each script requires.
C15_Required ==
    [cleanup_multiruns |-> {"DROP", "FilePath"},
     rm_runentity_intendedfor |-> {"KeyParamGroup", "FilePath"}]

\* The run is of a TSV-driven script whose table was read and lacks a
\* required column.
C15_ColumnMissing ==
    /\ script \in DOMAIN C15_Required
    /\ args.is_dir /\ args.is_file /\ args.tsv.readable
    /\ ~(C15_Required[script] \subseteq args.tsv.columns)

\* C15: when the TSV lacks a required column (DROP or FilePath for
\* cleanup_multiruns, KeyParamGroup or FilePath for rm_runentity_intendedfor)
\* the error is reported and the script stops without partial action: no row
\* is processed and no file is renamed, removed or rewritten.
C15_MissingColumnStops ==
    (C15_ColumnMissing /\ pc # "start") =>
        /\ pc \in {"complete", "done"}
        /\ \E e \in warned : e \in
              {"Error: TSV file must contain 'DROP' and 'FilePath' columns",
               "Error: TSV file must contain 'KeyParamGroup' and 'FilePath' columns"}
        /\ Cardinality(warned) = 1
        /\ fs = fs0 /\ writes = {} /\ results = <<>> /\ printed = {}

\* cleanup_multiruns has ended on a table without the DROP column whose rows
\* name existing tracked files, which were left alone.
C15_Witness ==
    /\ C15_ColumnMissing /\ pc = "done"
    /\ script = "cleanup_multiruns"
    /\ "DROP" \notin args.tsv.columns
    /\ \E i \in DOMAIN args.tsv.rows :
          /\ Exists(fs, args.tsv.rows[i].FilePath)
          /\ fs[args.tsv.rows[i].FilePath].tracked
    /\ fs = fs0

\* The same for rm_runentity_intendedfor and the KeyParamGroup column.
C15_WitnessRm ==
    /\ C15_ColumnMissing /\ pc = "done"
    /\ script = "rm_runentity_intendedfor"
    /\ "KeyParamGroup" \notin args.tsv.columns
    /\ \E i \in DOMAIN args.tsv.rows : Exists(fs, args.tsv.rows[i].FilePath)
    /\ fs = fs0

\* The rows the script has to process: all rows for cleanup_multiruns, the
\* rows with a target KeyParamGroup for rm_runentity_intendedfor.
C16_Rows ==
    IF script = "cleanup_multiruns" THEN args.tsv.rows
    ELSE SelectSeq(args.tsv.rows, LAMBDA r : r.KeyParamGroup \in target_patterns)

\* The reports of a failed git command.
C16_GitErrors == {"Error removing", "Error renaming", "Error processing"}

C16_WitnessRm ==
    /\ script = "rm_runentity_intendedfor" /\ pc = "done"
    /\ Len(results) = 2
    /\ results[1].moved = {}
    /\ results[2].outcome = "Successfully processed"

\* Each kind of failure is followed by a row that was carried out.
C16_WitnessKinds ==
    /\ script = "cleanup_multiruns" /\ pc = "done" /\ Len(results) = 2
    /\ results[1].outcome \in {"Warning: File not found",
                               "Warning: Destination file already exists"}
    /\ results[1].row.FilePath = CmFunc("_run-01", NIIGZ)
    /\ results[2].moved \cup results[2].removed # {}

(***************************************************************************)
(* The exit status of the process, from how main was left: pc "done" is    *)
(* main running to its end, "error" an early return after a failed test    *)
(* of its inputs, "crashed" an exception that escaped (status 1).          *)
(***************************************************************************)
\* remove_run_and_fix_intendedfor: raise SystemExit(main()), main returning
\* 2 at line 367 and 0 at line 393.
rr_exit_code(p) == IF p = "crashed" THEN 1 ELSE IF p = "error" THEN 2 ELSE 0

\* cleanup_multiruns: main() is called bare and its error paths are plain
\* `return`s, so the interpreter exits with 0 unless an exception escapes.
cm_exit_code(p) == IF p = "crashed" THEN 1 ELSE 0

\* update_perf_metadata: as cleanup_multiruns.
upm_exit_code(p) == IF p = "crashed" THEN 1 ELSE 0

\* fix_asl_odd_volumes: as cleanup_multiruns.
faov_exit_code(p) == IF p = "crashed" THEN 1 ELSE 0

exit_code ==
    CASE script = "remove_run" -> rr_exit_code(pc)
      [] script = "cleanup_multiruns" -> cm_exit_code(pc)
      [] script = "update_perf_metadata" -> upm_exit_code(pc)
      [] script = "fix_asl_odd_volumes" -> faov_exit_code(pc)

InitExit == InitRR \/ InitCM \/ InitUPM \/ InitFAOV

NextExit ==
    \/ RR_Plan \/ RR_Apply \/ RR_UpdateFmap
    \/ CM_Main \/ CM_Row \/ CM_Complete
    \/ UPM_Start \/ UPM_Process
    \/ FAOV_Start \/ FAOV_Process

SpecExit == InitExit /\ [][NextExit]_vars

\* C17: remove_run_and_fix_intendedfor, cleanup_multiruns,
\* update_perf_metadata and fix_asl_odd_volumes end with exit status 0 when
\* they complete and with a non-zero status when they stop on a hard
\* configuration error such as a missing dataset directory.
C17_ExitCodes ==
    script \in {"remove_run", "cleanup_multiruns", "update_perf_metadata",
                "fix_asl_odd_volumes"} =>
        /\ pc = "done" => exit_code = 0
        /\ pc = "error" => exit_code # 0

\* The part of C17 the code does satisfy: completion gives 0 in the four
\* scripts, and remove_run_and_fix_intendedfor gives 2 for a missing
\* directory.
C17_CompletionAndRemoveRun ==
    script \in {"remove_run", "cleanup_multiruns", "update_perf_metadata",
                "fix_asl_odd_volumes"} =>
        /\ pc = "done" => exit_code = 0
        /\ (script = "remove_run" /\ pc = "error") => exit_code = 2

\* remove_run_and_fix_intendedfor has stopped on a missing directory.
C17_RemoveRunStopped ==
    script = "remove_run" /\ pc = "error" /\ ~args.is_dir /\ exit_code = 2

(***************************************************************************)
(* cubids_group_rename.py, modify_acq on its own                           *)
(*                                                                         *)
(* modify_acq is a function of the acquisition label found in the file     *)
(* name, the acquisition label of the RenameEntitySet and the rename map.  *)
(* Its three stages are taken one at a time: results holds the merged      *)
(* string after each stage, first the value unify_acq returned; todo holds *)
(* the map items the substitution loop has still to apply and report the   *)
(* items it has applied, in order.                                         *)
(***************************************************************************)
\* What acq-([^_]+) and acquisition-([^_]+) can capture, and "" for no match.
AcqLabels ==
    {<<>>, <<"HB">>, <<"VARIANT">>, <<"Obliquity", "True">>,
     <<"VARIANT", "Obliquity", "True">>, <<"HB", "VARIANT", "Dim3Size">>,
     <<"HB", "VARIANT", "Obliquity", "True">>}

\* Rename maps as json.load returns them, in the order of the file.
ObliquityItem == << <<"Obliquity">>, <<"Obl">> >>
VariantObliquityItem == << <<"VARIANT", "Obliquity", "True">>, <<"VARIANT", "Oblique">> >>
ObliquityTrueItem == << <<"Obliquity", "True">>, <<"Oblique">> >>
Dim3SizeItem == << <<"Dim3Size">>, <<"Dim3">> >>

AcqRenameMaps ==
    {<<>>,
     <<ObliquityItem, VariantObliquityItem>>,
     <<VariantObliquityItem, ObliquityItem>>,
     <<ObliquityItem, Dim3SizeItem, ObliquityTrueItem, VariantObliquityItem>>,
     <<Dim3SizeItem, ObliquityTrueItem>>}

InitACQ ==
    /\ script = "modify_acq"
    /\ args \in [existing_acq : AcqLabels, new_acq : AcqLabels,
                 acq_rename_map : AcqRenameMaps]
    /\ dry_run = FALSE
    /\ run = 1
    /\ pc = "start"
    /\ fs = <<>>
    /\ fs0 = fs
    /\ warned = {}
    /\ printed = {}
    /\ writes = {}
    /\ RRIdle
    /\ todo = <<>>
    /\ results = <<>>
    /\ report = <<>>

\* Line 97: merged_acq = unify_acq(existing_acq, new_acq), and the sort of
\* lines 100-104.
ACQ_Unify ==
    /\ script = "modify_acq"
    /\ pc = "start"
    /\ results' = <<unify_acq(args.existing_acq, args.new_acq)>>
    /\ todo' = SortedByKeyLen(args.acq_rename_map)
    /\ pc' = "map"
    /\ UNCHANGED <<script, args, dry_run, run, fs, fs0, warned, printed, writes,
                   walk, core_plans, all_plans, applied, rel_map, upd_log,
                   dry_report, report>>

\* Lines 102-107: one turn of the substitution loop.
ACQ_Substitute ==
    /\ script = "modify_acq"
    /\ pc = "map"
    /\ todo # <<>>
    /\ results' = Append(results,
                         Replace(results[Len(results)], todo[1][1], todo[1][2]))
    /\ report' = Append(report, todo[1])
    /\ todo' = Tail(todo)
    /\ UNCHANGED <<script, args, dry_run, run, pc, fs, fs0, warned, printed,
                   writes, walk, core_plans, all_plans, applied, rel_map,
                   upd_log, dry_report>>

\* Lines 110-112: merge_variants and the return.
ACQ_MergeVariants ==
    /\ script = "modify_acq"
    /\ pc = "map"
    /\ todo = <<>>
    /\ results' = Append(results, merge_variants(results[Len(results)]))
    /\ pc' = "done"
    /\ UNCHANGED <<script, args, dry_run, run, fs, fs0, warned, printed, writes,
                   walk, core_plans, all_plans, applied, rel_map, upd_log,
                   dry_report, todo, report>>

NextACQ == ACQ_Unify \/ ACQ_Substitute \/ ACQ_MergeVariants

SpecACQ == InitACQ /\ [][NextACQ]_vars

\* The three stages give what modify_acq returns.
ACQ_StagesAreModifyAcq ==
    (script = "modify_acq" /\ pc = "done") =>
        results[Len(results)]
            = modify_acq(args.existing_acq, args.new_acq, args.acq_rename_map)

\* The longer of two labels of which one contains the other.
C18_Longer(a, b) == IF Len(a) >= Len(b) THEN a ELSE b

\* C18: cubids_group_rename merges the acquisition label already in a
\* filename with the acquisition label of the RenameEntitySet by substring
\* containment: if one label contains the other the longer one is kept, an
\* empty existing label yields the new label, and otherwise the result is
\* the existing label, an underscore, and the new label.
C18_UnifyByContainment ==
    (script = "modify_acq" /\ pc # "start") =>
        LET e == args.existing_acq
            n == args.new_acq
        IN  /\ e = <<>> => results[1] = n
            /\ (Contains(e, n) \/ Contains(n, e)) => results[1] = C18_Longer(e, n)
            /\ (~Contains(e, n) /\ ~Contains(n, e))
                   => results[1] = e \o <<"_">> \o n

\* The new label contains the existing one and is kept.
C18_Witness ==
    /\ script = "modify_acq"
    /\ pc = "done"
    /\ args.existing_acq = <<"HB">>
    /\ args.new_acq = <<"HB", "VARIANT", "Dim3Size">>
    /\ results[1] = <<"HB", "VARIANT", "Dim3Size">>

\* Neither label contains the other and they are joined by an underscore.
C18_WitnessJoined ==
    /\ script = "modify_acq"
    /\ pc = "done"
    /\ args.existing_acq = <<"HB">>
    /\ args.new_acq = <<"VARIANT", "Obliquity", "True">>
    /\ results[1] = <<"HB", "_", "VARIANT", "Obliquity", "True">>

\* key is a proper substring of the key of item y.
C19_ProperSubstring(x, y) == x[1] # y[1] /\ Contains(y[1], x[1])

\* C19: in modify_acq the acquisition-map substitutions are applied longest
\* key first: whenever one map key is a substring of another, the longer
\* key is substituted before the shorter one, so that an occurrence of the
\* longer key in the merged string is replaced by the longer key's short
\* form and not rewritten by the shorter key first.
C19_LongestKeyFirst ==
    script = "modify_acq" =>
        /\ \A j \in DOMAIN report :
              \A x \in Range(args.acq_rename_map) :
                  C19_ProperSubstring(x, report[j])
                      => ~\E i \in 1..(j - 1) : report[i] = x
        /\ \A j \in DOMAIN report :
              \* no key applied before this one occurs in the merged string
              ((\A i \in 1..(j - 1) : ~Contains(results[1], report[i][1]))
                    /\ Contains(results[1], report[j][1]))
                  => /\ results[j + 1] = Replace(results[1], report[j][1], report[j][2])
                     /\ Contains(results[j + 1], report[j][2])

\* The map lists "Obliquity" before "VARIANTObliquityTrue", the merged
\* string holds the longer key, and the result holds its short form.
C19_Witness ==
    /\ script = "modify_acq"
    /\ pc = "done"
    /\ args.acq_rename_map = <<ObliquityItem, VariantObliquityItem>>
    /\ results[1] = <<"HB", "VARIANT", "Obliquity", "True">>
    /\ report = <<VariantObliquityItem, ObliquityItem>>
    /\ results[Len(results)] = <<"HB", "VARIANT", "Oblique">>

(***************************************************************************)
(* The file-name rewrites of cubids_group_rename.py,                       *)
(* remove_run_and_fix_intendedfor.py and fix_run_rec_entities.py, each on  *)
(* its own: args holds a file name and what else the rewrite reads, and    *)
(* the action of the script puts the name it derives in results.           *)
(***************************************************************************)
\* File names for cubids_group_rename, as sequences of atoms.
NamesOfAtoms ==
    {<<"sub-01", "_", "ses-01", "_">> \o acq \o tok \o <<sfx>> \o ext :
        acq \in {<<>>, <<"acq-", "HB", "_">>, <<"acq-", "VARIANT", "_">>},
        tok \in {<<>>, <<"run-1", "_">>, <<"mt-on", "_">>},
        sfx \in {"dwi", "bold"},
        ext \in {NIIGZ, JSON}}

\* File names for the two other scripts, as sequences of tokens.
NamesOfTokens ==
    {<<"sub-01", "_ses-01">> \o ents \o <<sfx>> \o ext :
        ents \in {<<>>, <<"_run-1">>, <<"_rec-norm">>, <<"_acq-hi", "_run-2">>,
                  <<"_run-1", "_rec-norm">>, <<"_rec-norm", "_run-1">>,
                  <<"_run-1", "_acq-hi", "_rec-norm">>},
        sfx \in {"_T1w", "_bold"},
        ext \in {NIIGZ, NII, JSON}}

InitNames ==
    /\ \/ /\ script = "cubids_group_rename"
          /\ args \in [name : NamesOfAtoms, acq : AcqLabels,
                       suffix : {<<>>, <<"dwi">>, <<"bold">>},
                       acq_rename_map : AcqRenameMaps]
       \/ /\ script \in {"remove_run", "fix_run_rec_entities"}
          /\ args \in [name : NamesOfTokens]
    /\ dry_run = FALSE
    /\ run = 1
    /\ pc = "name"
    /\ fs = <<>>
    /\ fs0 = fs
    /\ warned = {}
    /\ printed = {}
    /\ writes = {}
    /\ RRIdle
    /\ todo = <<>>
    /\ results = <<>>
    /\ report = <<>>

NamesUnchanged ==
    UNCHANGED <<script, args, dry_run, run, fs, fs0, warned, printed, writes,
                walk, core_plans, all_plans, applied, rel_map, upd_log,
                dry_report, todo, report>>

\* cubids_group_rename.py lines 155-218: the new name of one file.
Names_GroupRename ==
    /\ script = "cubids_group_rename"
    /\ pc = "name"
    /\ results' = <<NewName(args.name, args.acq, args.suffix, args.acq_rename_map)>>
    /\ pc' = "renamed"
    /\ NamesUnchanged

\* remove_run_and_fix_intendedfor.py lines 111-118: the destination name, for
\* a name that holds a run token.
Names_RemoveRun ==
    /\ script = "remove_run"
    /\ pc = "name"
    /\ IF RUN_TOKEN_RE_search(args.name)
       THEN results' = <<RunlessName(args.name)>> /\ pc' = "renamed"
       ELSE results' = results /\ pc' = "kept"
    /\ NamesUnchanged

\* fix_run_rec_entities.py lines 130-140: the destination name, for a name
\* reorder_run_rec does not return None for.
Names_ReorderRunRec ==
    /\ script = "fix_run_rec_entities"
    /\ pc = "name"
    /\ LET sp == frr_split_name_suffix(args.name)
       IN  IF reorder_run_rec(sp[1]) # <<>>
           THEN results' = <<reorder_run_rec(sp[1]) \o sp[2]>> /\ pc' = "renamed"
           ELSE results' = results /\ pc' = "kept"
    /\ NamesUnchanged

NextNames == Names_GroupRename \/ Names_RemoveRun \/ Names_ReorderRunRec

SpecNames == InitNames /\ [][NextNames]_vars

\* The pieces of a sequence of atoms between its "_" atoms.
RECURSIVE C20_Split(_)
C20_Split(s) ==
    LET i == IndexOf(s, <<"_">>)
    IN  IF i = 0 THEN <<s>>
        ELSE <<SubSeq(s, 1, i - 1)>> \o C20_Split(SubSeq(s, i + 1, Len(s)))

\* The entity key a piece or token begins with, "" when it begins with none.
C20_Key(first) ==
    CASE first \in {"sub-01"} -> "sub"
      [] first \in {"ses-01", "_ses-01"} -> "ses"
      [] first \in {"acq-", "_acq-hi"} -> "acq"
      [] first \in {"run-1", "run-2", "_run-1", "_run-2"} -> "run"
      [] first \in {"mt-on", "mt-off"} -> "mt"
      [] first \in {"_rec-norm"} -> "rec"
      [] OTHER -> ""

\* A piece of atoms is a key with a value that is not empty.
C20_IsEntity(piece) ==
    /\ piece # <<>>
    /\ C20_Key(piece[1]) # ""
    /\ piece[1] = "acq-" => Len(piece) >= 2
    /\ \A i \in 2..Len(piece) : C20_Key(piece[i]) = "" /\ piece[i] \notin DotToks

C20_Distinct(keys) == \A i, j \in DOMAIN keys : keys[i] = keys[j] => i = j

\* A name of atoms is entities joined by single "_", the suffix, the extension.
C20_WellFormedAtoms(name) ==
    \E ext \in {NIIGZ, JSON} :
        /\ EndsWith(name, ext)
        /\ LET pieces == C20_Split(DropLast(name, Len(ext)))
               n == Len(pieces)
           IN  /\ n >= 2
               /\ \A i \in 1..(n - 1) : C20_IsEntity(pieces[i])
               /\ pieces[n] \in {<<"dwi">>, <<"bold">>}
               /\ C20_Distinct([i \in 1..(n - 1) |-> C20_Key(pieces[i][1])])

\* A name of tokens is "sub-..", "_key-value" tokens, the suffix, the extension.
C20_WellFormedTokens(name) ==
    \E ext \in {NIIGZ, NII, JSON} :
        /\ EndsWith(name, ext)
        /\ LET stem == DropLast(name, Len(ext))
               n == Len(stem)
           IN  /\ n >= 2
               /\ stem[1] = "sub-01"
               /\ \A i \in 2..(n - 1) : C20_Key(stem[i]) \notin {"", "sub"}
               /\ stem[n] \in {"_T1w", "_bold"}
               /\ C20_Distinct([i \in 1..(n - 1) |-> C20_Key(stem[i])])

C20_WellFormed(name) ==
    IF script = "cubids_group_rename" THEN C20_WellFormedAtoms(name)
    ELSE C20_WellFormedTokens(name)

\* C20: every filename produced by a path-entity rewrite
\* (cubids_group_rename, remove_run_and_fix_intendedfor,
\* fix_run_rec_entities) from a well-formed BIDS filename is again
\* well-formed: key-value tokens with non-empty values joined by single
\* underscores and ended by the suffix and extension, no dangling or doubled
\* underscore, no token lacking a key, no entity key twice.
C20_RewritesKeepWellFormed ==
    (script \in {"cubids_group_rename", "remove_run", "fix_run_rec_entities"}
        /\ pc = "renamed" /\ C20_WellFormed(args.name))
        => C20_WellFormed(results[1])

\* The part of C20 the code does satisfy: the names of
\* remove_run_and_fix_intendedfor and fix_run_rec_entities, and the names of
\* cubids_group_rename when the suffix of the RenameEntitySet is the suffix
\* of the file, one of the two labels is not empty and one contains the
\* other.
C20_WellFormedWhenLabelsNest ==
    (script \in {"cubids_group_rename", "remove_run", "fix_run_rec_entities"}
        /\ pc = "renamed" /\ C20_WellFormed(args.name)
        /\ (script = "cubids_group_rename" =>
               LET e == Group1(args.name, "acq-")
               IN  /\ EndsWith(SplitExt(args.name)[1], args.suffix)
                   /\ args.suffix # <<>>
                   /\ args.acq # <<>> \/ e # <<>>
                   /\ Contains(e, args.acq) \/ Contains(args.acq, e)))
        => C20_WellFormed(results[1])

\* cubids_group_rename has joined two labels of which neither contains the
\* other, and the second has become a token without a key.
C20_JoinedLabels ==
    /\ script = "cubids_group_rename"
    /\ pc = "renamed"
    /\ args.name = <<"sub-01", "_", "ses-01", "_", "acq-", "HB", "_", "dwi", ".nii", ".gz">>
    /\ args.acq = <<"VARIANT", "Obliquity", "True">>
    /\ args.suffix = <<"dwi">>
    /\ results[1] = <<"sub-01", "_", "ses-01", "_", "acq-", "HB", "_",
                      "VARIANT", "Oblique", "_", "dwi", ".nii", ".gz">>

\* Each of the three rewrites has produced a well-formed name.
C20_RenamedWellFormed ==
    /\ pc = "renamed"
    /\ C20_WellFormed(args.name)
    /\ C20_WellFormed(results[1])
    /\ results[1] # args.name

C20_RenamedByGroupRename == script = "cubids_group_rename" /\ C20_RenamedWellFormed
C20_RenamedByRemoveRun == script = "remove_run" /\ C20_RenamedWellFormed
C20_RenamedByReorder == script = "fix_run_rec_entities" /\ C20_RenamedWellFormed

(***************************************************************************)
(* events/convert_and_score_fracback.py: dprime                            *)
(*                                                                         *)
(* A rate is a fraction <<numerator, denominator>> with a positive         *)
(* denominator; the half-count 0.5 / n is <<1, 2 * n>>.  Z = norm.ppf is   *)
(* finite exactly on the rates strictly between 0 and 1.                   *)
(***************************************************************************)
MaxCount == 3

\* max(a, b)
PyMax(a, b) == IF a >= b THEN a ELSE b

\* rate == 1, rate == 0 on fractions
RateIsOne(rate) == rate[1] = rate[2]
RateIsZero(rate) == rate[1] = 0

\* count / max(total, 1) without the two corrections.
rate_Uncorrected(count, total) == <<count, PyMax(total, 1)>>

\* Lines 339-352, for one of the two rates: count / max(total, 1), then
\* "if rate == 1: rate = 1 - half" and "if rate == 0: rate = half", in turn.
corrected_rate(count, total) ==
    LET n == PyMax(total, 1)
        rate0 == <<count, n>>
        rate1 == IF RateIsOne(rate0) THEN <<2 * n - 1, 2 * n>> ELSE rate0
    IN  IF RateIsZero(rate1) THEN <<1, 2 * n>> ELSE rate1

\* norm.ppf(rate) is a finite number.
Z_finite(rate) == 0 < rate[1] /\ rate[1] < rate[2]

\* The two rates dprime hands to Z (line 354).
dprime_rates(hits, misses, fas, crs) ==
    [hit_rate |-> corrected_rate(hits, hits + misses),
     fa_rate |-> corrected_rate(fas, fas + crs)]

InitDP ==
    /\ script = "dprime"
    /\ args \in [hits : 0..MaxCount, misses : 0..MaxCount,
                 fas : 0..MaxCount, crs : 0..MaxCount]
    /\ dry_run = FALSE
    /\ run = 1
    /\ pc = "start"
    /\ fs = <<>>
    /\ fs0 = fs
    /\ warned = {}
    /\ printed = {}
    /\ writes = {}
    /\ RRIdle
    /\ todo = <<>>
    /\ results = <<>>
    /\ report = <<>>

\* dprime (lines 337-354) up to the call of Z.
DP_Rates ==
    /\ script = "dprime"
    /\ pc = "start"
    /\ results' = dprime_rates(args.hits, args.misses, args.fas, args.crs)
    /\ pc' = "done"
    /\ NamesUnchanged

NextDP == DP_Rates

SpecDP == InitDP /\ [][NextDP]_vars

\* a / b = c / d on fractions
C21_Same(x, y) == x[1] * y[2] = y[1] * x[2]

\* The rate the claim gives for `count` of `total` trials.
C21_Expected(count, total, rate) ==
    LET n == PyMax(total, 1)
    IN  /\ Z_finite(rate)
        /\ count = 0 => C21_Same(rate, <<1, 2 * n>>)
        /\ (count = n) => C21_Same(rate, <<2 * n - 1, 2 * n>>)
        /\ (count # 0 /\ count # n) => C21_Same(rate, <<count, n>>)

\* C21: in dprime(hits, misses, fas, crs), for all non-negative integer
\* inputs (all zero included) the hit rate and the false-alarm rate passed
\* to the inverse-normal transform lie strictly between 0 and 1: a rate of
\* exactly 0 is replaced by 0.5 / max(n, 1) and a rate of exactly 1 by
\* 1 - 0.5 / max(n, 1), so the result is finite.
C21_RatesStrictlyInside ==
    (script = "dprime" /\ pc = "done") =>
        /\ C21_Expected(args.hits, args.hits + args.misses, results.hit_rate)
        /\ C21_Expected(args.fas, args.fas + args.crs, results.fa_rate)

\* All hits and no false alarm: both corrections are applied.
C21_Witness ==
    /\ script = "dprime"
    /\ pc = "done"
    /\ args.hits = 2 /\ args.misses = 0 /\ args.fas = 0 /\ args.crs = 3
    /\ results.hit_rate = <<3, 4>>
    /\ results.fa_rate = <<1, 6>>

\* All four counts are zero.
C21_WitnessAllZero ==
    /\ script = "dprime"
    /\ pc = "done"
    /\ args = [hits |-> 0, misses |-> 0, fas |-> 0, crs |-> 0]
    /\ results.hit_rate = <<1, 2>>
    /\ results.fa_rate = <<1, 2>>

(***************************************************************************)
(* events/convert_and_score_fracback.py: build_events_dataframe and        *)
(* summarize_subject                                                       *)
(*                                                                         *)
(* A row of allback is [task, results, response_time_ms]: the label of the *)
(* template, the "expected" attribute of the XML element and the response  *)
(* time, NoResponse for None (NaN in the data frame), else Response(ms).   *)
(***************************************************************************)
MaxTrials == 2

\* rt_sec <= 2.4 with rt_sec = response_time_ms / 1000.0 (lines 274, 287).
RT_LIMIT_MS == 2400

NoResponse == [isna |-> TRUE, ms |-> 0]
Response(ms) == [isna |-> FALSE, ms |-> ms]

\* "expected" attributes: the two documented levels and one that holds
\* neither "NR" nor "Match".
Expected == {"NR", "Match", "Other"}

\* "NR" in result, "Match" in result
HasNR(result) == result = "NR"
HasMatch(result) == result = "Match"

\* pd.isna(rt_sec)
isna(rt) == rt.isna

\* The scoring without the limit on the response time.
score_of_AnyResponse(result, rt) ==
    IF HasNR(result) /\ ~isna(rt) THEN "false_positive"
    ELSE IF HasNR(result) /\ isna(rt) THEN "true_negative"
    ELSE IF HasMatch(result) /\ ~isna(rt) THEN "true_positive"
    ELSE IF HasMatch(result) THEN "false_negative"
    ELSE "unknown"

\* The if / elif chain of build_events_dataframe (lines 279-293).
score_of(result, rt) ==
    IF HasNR(result) /\ ~isna(rt) THEN "false_positive"
    ELSE IF HasNR(result) /\ isna(rt) THEN "true_negative"
    ELSE IF HasMatch(result) /\ (~isna(rt) /\ rt.ms <= RT_LIMIT_MS) THEN "true_positive"
    ELSE IF HasMatch(result) /\ (isna(rt) \/ rt.ms > RT_LIMIT_MS) THEN "false_negative"
    ELSE "unknown"

\* build_events_dataframe: one event per row of allback, in order.
build_events_dataframe(allback) ==
    [i \in DOMAIN allback |->
        [trial_type |-> allback[i].task,
         results |-> allback[i].results,
         response_time |-> allback[i].response_time_ms,
         score |-> score_of(allback[i].results, allback[i].response_time_ms)]]

Scores == {"false_positive", "false_negative", "true_positive", "true_negative"}

\* The eight counters of summarize_subject (lines 358-380).
summarize_subject(df) ==
    [t \in {"0BACK", "2BACK"} |->
        [s \in Scores |->
            Cardinality({i \in DOMAIN df : df[i].trial_type = t /\ df[i].score = s})]]

Trials ==
    [task : {"0BACK", "2BACK"}, results : Expected,
     response_time_ms : {NoResponse, Response(600), Response(RT_LIMIT_MS),
                         Response(RT_LIMIT_MS + 1)}]

InitSC ==
    /\ script = "convert_and_score_fracback"
    /\ args \in {[allback |-> a] : a \in SeqsUpTo(Trials, MaxTrials)}
    /\ dry_run = FALSE
    /\ run = 1
    /\ pc = "start"
    /\ fs = <<>>
    /\ fs0 = fs
    /\ warned = {}
    /\ printed = {}
    /\ writes = {}
    /\ RRIdle
    /\ todo = <<>>
    /\ results = <<>>
    /\ report = <<>>

\* main, line 668: events_df = build_events_dataframe(allback)
SC_BuildEvents ==
    /\ script = "convert_and_score_fracback"
    /\ pc = "start"
    /\ results' = build_events_dataframe(args.allback)
    /\ pc' = "events"
    /\ NamesUnchanged

\* main, line 673: session_metrics = summarize_subject(bblid, events_df)
SC_Summarize ==
    /\ script = "convert_and_score_fracback"
    /\ pc = "events"
    /\ report' = summarize_subject(results)
    /\ pc' = "done"
    /\ UNCHANGED <<script, args, dry_run, run, fs, fs0, warned, printed, writes,
                   walk, core_plans, all_plans, applied, rel_map, upd_log,
                   dry_report, todo, results>>

NextSC == SC_BuildEvents \/ SC_Summarize

SpecSC == InitSC /\ [][NextSC]_vars

\* The score the rules of the claim give a trial for which a response is
\* or is not expected.
C22_RuleScore(result, rt) ==
    IF result = "NR"
    THEN (IF rt # NoResponse THEN "false_positive" ELSE "true_negative")
    ELSE (IF rt # NoResponse /\ rt.ms <= 2400 THEN "true_positive" ELSE "false_negative")

C22_Sum(counts) ==
    counts["false_positive"] + counts["false_negative"]
        + counts["true_positive"] + counts["true_negative"]

C22_TrialsOfType(t) ==
    Cardinality({i \in DOMAIN args.allback : args.allback[i].task = t})

C22_UnknownScore ==
    /\ script = "convert_and_score_fracback"
    /\ pc = "done"
    /\ Len(results) = 1
    /\ results[1].results = "Other"
    /\ results[1].score = "unknown"
    /\ C22_Sum(report[results[1].trial_type]) = 0

(***************************************************************************)
(* events/convert_and_score_fracback.py: update_sessions_tsv               *)
(*                                                                         *)
(* A cell of a TSV file is its text, kept as [t, v]: t tells how           *)
(* pandas.read_csv classifies the text ("int" for 12, "float" for 12.0,    *)
(* "na" for n/a, "str" for the rest) and v is the number or string it      *)
(* denotes.  A table is [columns, rows]: the header in order and, per row, *)
(* a function from the column names to cells.                              *)
(***************************************************************************)
MaxCalls == 3

IntCell(v) == [t |-> "int", v |-> v]
FloatCell(v) == [t |-> "float", v |-> v]
StrCell(v) == [t |-> "str", v |-> v]
NA == [t |-> "na", v |-> ""]

SessionsTsv == [dir |-> <<<<"sub-01">>>>, name |-> <<"sub-01", "_sessions", ".tsv">>]
SessionsJson == [dir |-> <<<<"sub-01">>>>, name |-> <<"sub-01", "_sessions", ".json">>]

\* The dtype pandas.read_csv infers for a column from its cells.
infer_dtype(cells) ==
    IF cells # {} /\ \A c \in cells : c.t = "int" THEN "int64"
    ELSE IF \A c \in cells : c.t \in {"int", "float", "na"} THEN "float64"
    ELSE "object"

\* as_dtype without the conversion of integers in a float64 column.
as_dtype_Kept(dtype, cell) == cell

\* A value as a column of the given dtype holds it.
as_dtype(dtype, cell) ==
    IF dtype = "float64" /\ cell.t = "int" THEN FloatCell(cell.v) ELSE cell

\* pd.read_csv(sessions_path, sep="\t"): the table with its dtypes.
read_csv(table) ==
    LET dtype == [c \in Range(table.columns) |->
                     infer_dtype({table.rows[i][c] : i \in DOMAIN table.rows})]
    IN  [columns |-> table.columns,
         dtype |-> dtype,
         rows |-> [i \in DOMAIN table.rows |->
                      [c \in Range(table.columns) |->
                          as_dtype(dtype[c], table.rows[i][c])]]]

\* Lines 493-494: df.insert(0, "session_id", pd.Series(dtype=str))
ensure_session_id(df) ==
    IF "session_id" \in Range(df.columns) THEN df
    ELSE [columns |-> <<"session_id">> \o df.columns,
          dtype |-> [c \in Range(df.columns) \cup {"session_id"} |->
                        IF c = "session_id" THEN "object" ELSE df.dtype[c]],
          rows |-> [i \in DOMAIN df.rows |->
                       [c \in Range(df.columns) \cup {"session_id"} |->
                           IF c = "session_id" THEN NA ELSE df.rows[i][c]]]]

HasSession(df, ses_label) ==
    \E i \in DOMAIN df.rows : df.rows[i]["session_id"] = StrCell(ses_label)

\* Lines 495-500 without the test of line 495: the row is always added.
ensure_row_Always(df, ses_label) ==
    [columns |-> df.columns,
     dtype |-> [c \in Range(df.columns) |-> "object"],
     rows |-> Append(df.rows,
                [c \in Range(df.columns) |->
                    IF c = "session_id" THEN StrCell(ses_label) ELSE NA])]

\* Lines 495-500: pd.concat with a row of pd.NA; the columns that hold a
\* pd.NA become object columns and keep their values.
ensure_row(df, ses_label) ==
    IF HasSession(df, ses_label) THEN df
    ELSE [columns |-> df.columns,
          dtype |-> [c \in Range(df.columns) |-> "object"],
          rows |-> Append(df.rows,
                     [c \in Range(df.columns) |->
                         IF c = "session_id" THEN StrCell(ses_label) ELSE NA])]

\* Lines 506-508: df[key] = pd.NA for the keys that are no column yet, in
\* the order of the keys.
RECURSIVE add_columns(_, _)
add_columns(df, keys) ==
    IF keys = <<>> THEN df
    ELSE LET key == Head(keys)
         IN  IF key \in Range(df.columns) THEN add_columns(df, Tail(keys))
             ELSE add_columns(
                    [columns |-> Append(df.columns, key),
                     dtype |-> [c \in Range(df.columns) \cup {key} |->
                                   IF c = key THEN "object" ELSE df.dtype[c]],
                     rows |-> [i \in DOMAIN df.rows |->
                                  [c \in Range(df.columns) \cup {key} |->
                                      IF c = key THEN NA ELSE df.rows[i][c]]]],
                    Tail(keys))

\* Lines 511-513, for one key: df.loc[row_idx, key] = value.  A float put in
\* an int64 column makes the column float64.
set_value(df, ses_label, key, value) ==
    LET dtype == IF df.dtype[key] = "int64" /\ value.t = "float"
                 THEN "float64" ELSE df.dtype[key]
    IN  [columns |-> df.columns,
         dtype |-> [df.dtype EXCEPT ![key] = dtype],
         rows |-> [i \in DOMAIN df.rows |->
                      [df.rows[i] EXCEPT
                          ![key] = IF df.rows[i]["session_id"] = StrCell(ses_label)
                                   THEN as_dtype(dtype, value)
                                   ELSE as_dtype(dtype, @)]]]

RECURSIVE set_values(_, _, _, _)
set_values(df, ses_label, keys, metrics) ==
    IF keys = <<>> THEN df
    ELSE set_values(set_value(df, ses_label, Head(keys), metrics[Head(keys)]),
                    ses_label, Tail(keys), metrics)

\* Lines 516-518: session_id and acq_time first.
first_columns(columns) ==
    SelectSeq(<<"session_id", "acq_time">>, LAMBDA c : c \in Range(columns))
    \o SelectSeq(columns, LAMBDA c : c \notin {"session_id", "acq_time"})

\* df.to_csv(sessions_path, sep="\t", index=False, na_rep="n/a")
sessions_to_csv(df) == [columns |-> first_columns(df.columns), rows |-> df.rows]

\* The keys of the metrics, in the order summarize_subject inserts them.
MetricKeys == <<"0_back_true_positive", "0_back_dprime">>

\* update_sessions_tsv (lines 475-521): the table written for the session.
sessions_table(f, ses_label, metrics) ==
    LET df0 == IF Exists(f, SessionsTsv) THEN read_csv(f[SessionsTsv])
               ELSE [columns |-> <<"session_id">>,
                     dtype |-> [c \in {"session_id"} |-> "object"],
                     rows |-> <<[c \in {"session_id"} |-> StrCell(ses_label)]>>]
        df1 == ensure_row(ensure_session_id(df0), ses_label)
        keys == SelectSeq(MetricKeys, LAMBDA k : k \in DOMAIN metrics)
        df2 == add_columns(df1, keys)
    IN  sessions_to_csv(set_values(df2, ses_label, keys, metrics))

\* Lines 523-609: the keys of the sessions.json sidecar after the call.
sessions_sidecar(f, metrics) ==
    [keys |-> (IF Exists(f, SessionsJson) THEN f[SessionsJson].keys ELSE {})
              \cup {"session_id", "acq_time"} \cup DOMAIN metrics]

update_sessions_tsv(f, ses_label, metrics) ==
    [p \in DOMAIN f \cup {SessionsTsv, SessionsJson} |->
        IF p = SessionsTsv THEN sessions_table(f, ses_label, metrics)
        ELSE IF p = SessionsJson THEN sessions_sidecar(f, metrics)
        ELSE f[p]]

SessionLabels == {"ses-1", "ses-2"}

Metrics ==
    {("0_back_true_positive" :> IntCell(n)) @@ ("0_back_dprime" :> FloatCell(d)) :
        n \in {"10", "12"}, d \in {"0.7", "1.5"}}

\* A sessions.tsv the dataset came with: session_id and acq_time.
AcqRow(ses_label, acq_time) ==
    ("session_id" :> StrCell(ses_label)) @@ ("acq_time" :> acq_time)

AcqTables ==
    {[columns |-> <<"session_id", "acq_time">>, rows |-> rows] :
        rows \in {<<AcqRow("ses-1", StrCell("T09"))>>,
                  <<AcqRow("ses-2", NA)>>,
                  <<AcqRow("ses-1", StrCell("T09")), AcqRow("ses-2", StrCell("T14"))>>}}

USTrees == {<<>>} \cup {(SessionsTsv :> t) : t \in AcqTables}

\* The subject directory before the first call.  todo holds the arguments of
\* the last call, fs0 the directory before it, run the number of the next call.
InitUS ==
    /\ script = "update_sessions_tsv"
    /\ args = <<>>
    /\ dry_run = FALSE
    /\ run = 1
    /\ pc = "start"
    /\ fs \in USTrees
    /\ fs0 = fs
    /\ warned = {}
    /\ printed = {}
    /\ writes = {}
    /\ RRIdle
    /\ todo = <<>>
    /\ results = <<>>
    /\ report = <<>>

\* main, line 689: update_sessions_tsv(output_dir, bblid, ses_label, metrics)
US_Update ==
    /\ script = "update_sessions_tsv"
    /\ run <= MaxCalls
    /\ \E ses_label \in SessionLabels, metrics \in Metrics :
          /\ fs' = update_sessions_tsv(fs, ses_label, metrics)
          /\ todo' = <<[ses_label |-> ses_label, metrics |-> metrics]>>
    /\ fs0' = fs
    /\ run' = run + 1
    /\ pc' = "updated"
    /\ writes' = {SessionsTsv, SessionsJson}
    /\ UNCHANGED <<script, args, dry_run, warned, printed, walk, core_plans,
                   all_plans, applied, rel_map, upd_log, dry_report, results,
                   report>>

NextUS == US_Update

SpecUS == InitUS /\ [][NextUS]_vars

\* The rows of a table whose session_id is the label.
C23_RowsOf(table, ses_label) ==
    {i \in DOMAIN table.rows : table.rows[i]["session_id"] = StrCell(ses_label)}

C23_Before == IF Exists(fs0, SessionsTsv) THEN fs0[SessionsTsv]
              ELSE [columns |-> <<>>, rows |-> <<>>]

\* The same number, whether written 12 or 12.0.
C23_SameNumber(a, b) ==
    a = b \/ (a.t \in {"int", "float"} /\ b.t \in {"int", "float"} /\ a.v = b.v)

\* What every call establishes, for the given reading of "unchanged".
C23_Frame(Same(_, _)) ==
    LET S == todo[1].ses_label
        M == todo[1].metrics
        after == fs[SessionsTsv]
    IN  /\ Exists(fs, SessionsTsv)
        /\ \E i \in C23_RowsOf(after, S) :
              \A k \in DOMAIN M : k \in Range(after.columns) /\ Same(after.rows[i][k], M[k])
        \* the rows of the other sessions
        /\ \A j \in DOMAIN C23_Before.rows :
              C23_Before.rows[j]["session_id"] # StrCell(S) =>
                  /\ j \in DOMAIN after.rows
                  /\ \A c \in Range(C23_Before.columns) :
                        Same(after.rows[j][c], C23_Before.rows[j][c])
        \* the columns of the session's row that are not in M
        /\ \A j \in C23_RowsOf(C23_Before, S) :
              \A c \in Range(C23_Before.columns) \ DOMAIN M :
                  Same(after.rows[j][c], C23_Before.rows[j][c])
        /\ \A l \in SessionLabels : Cardinality(C23_RowsOf(after, l)) <= 1

C23_UpdateFrameAsWritten ==
    (script = "update_sessions_tsv" /\ pc = "updated") =>
        C23_Frame(LAMBDA a, b : a = b)

C23_CountRewritten ==
    /\ script = "update_sessions_tsv"
    /\ pc = "updated"
    /\ todo[1].ses_label = "ses-2"
    /\ Exists(fs0, SessionsTsv)
    /\ \E i \in DOMAIN fs0[SessionsTsv].rows :
          /\ fs0[SessionsTsv].rows[i]["session_id"] = StrCell("ses-1")
          /\ "0_back_true_positive" \in DOMAIN fs0[SessionsTsv].rows[i]
          /\ fs0[SessionsTsv].rows[i]["0_back_true_positive"] = IntCell("12")
          /\ fs[SessionsTsv].rows[i]["0_back_true_positive"] = FloatCell("12")

(***************************************************************************)
(* phenotype/03_separate_self_reports.py                                   *)
(*                                                                         *)
(* A column name is the sequence of its tokens between underscores         *)
(* ("phq" "9" "complete" for phq_9_complete); an instrument name likewise. *)
(* The headers of the output files are kept as sets of columns: the order  *)
(* the script sorts them into is not part of the model.                    *)
(***************************************************************************)
MaxCols == 3

PARTICIPANT_ID_COL == <<"participant", "id">>

\* token.lower()
ssr_lower(token) == IF token = "Complete" THEN "complete" ELSE token

col_lower(column) == [i \in DOMAIN column |-> ssr_lower(column[i])]

\* token[0].isdigit()
StartsWithDigit(token) == token \in {"1", "2", "9"}

\* "complete" in col.lower()
has_complete(column) == \E i \in DOMAIN column : ssr_lower(column[i]) = "complete"

\* The test of line 238 left out.
has_complete_Never(column) == FALSE

\* is_item_column.  split_tokens never yields the token "participant_id",
\* so the test of line 106 fails for every column.
is_item_column(column) ==
    LET tokens == col_lower(column)
    IN  /\ tokens # <<>>
        /\ tokens[1] # "participant_id"
        /\ \E i \in DOMAIN tokens : StartsWithDigit(tokens[i])

\* infer_instrument_from_item; <<>> for None.
infer_instrument_from_item(column) ==
    LET tokens == col_lower(column)
        D == {i \in DOMAIN tokens : StartsWithDigit(tokens[i])}
    IN  IF D = {} THEN tokens ELSE SubSeq(tokens, 1, MinOf(D) - 1)

\* len() of a token, and of a name with its underscores.
TokenLen ==
    [t \in {"aces", "ace", "phq", "9", "1", "2", "flag", "complete",
            "demographics", "timestamp"} |->
        CASE t \in {"9", "1", "2"} -> 1 [] t \in {"ace", "phq"} -> 3
          [] t \in {"aces", "flag"} -> 4 [] t = "complete" -> 8
          [] t = "timestamp" -> 9 [] t = "demographics" -> 12]

RECURSIVE NameLen(_)
NameLen(name) ==
    IF name = <<>> THEN 0
    ELSE TokenLen[Head(name)] + (IF Len(name) > 1 THEN 1 ELSE 0) + NameLen(Tail(name))

\* sorted(instruments, key=len, reverse=True): stable, longest first.
RECURSIVE ssr_candidates(_)
ssr_candidates(instruments) ==
    IF instruments = <<>> THEN <<>>
    ELSE LET x == instruments[Len(instruments)]
             rest == ssr_candidates(DropLast(instruments, 1))
         IN  SelectSeq(rest, LAMBDA y : NameLen(y) >= NameLen(x)) \o <<x>>
             \o SelectSeq(rest, LAMBDA y : NameLen(y) < NameLen(x))

\* a is a prefix of b, as strings.
TokenPrefix(a, b) == a = b \/ <<a, b>> \in {<<"ace", "aces">>}

\* col_l.startswith(inst + "_") or col_l.startswith(inst)
ssr_prefix_match(col_l, inst) ==
    /\ inst # <<>>
    /\ Len(col_l) >= Len(inst)
    /\ SubSeq(col_l, 1, Len(inst) - 1) = SubSeq(inst, 1, Len(inst) - 1)
    /\ TokenPrefix(inst[Len(inst)], col_l[Len(inst)])

\* inst[:-2] == first (with "es") or inst[:-1] == first (with "s")
ssr_plural_match(first, inst) == <<first, inst>> \in {<<"ace", <<"aces">>>>}

\* The first candidate that satisfies Test, <<>> when none does.
FirstCandidate(candidates, Test(_)) ==
    LET I == {i \in DOMAIN candidates : Test(candidates[i])}
    IN  IF I = {} THEN <<>> ELSE candidates[MinOf(I)]

\* assign_non_item_column; <<>> for None.
assign_non_item_column(column, instruments) ==
    LET col_l == col_lower(column)
        candidates == ssr_candidates(instruments)
        whole == FirstCandidate(candidates, LAMBDA inst : IndexOf(col_l, inst) > 0)
        prefix == FirstCandidate(candidates, LAMBDA inst : ssr_prefix_match(col_l, inst))
        plural == FirstCandidate(candidates, LAMBDA inst : ssr_plural_match(col_l[1], inst))
    IN  IF whole # <<>> THEN whole
        ELSE IF prefix # <<>> THEN prefix
        ELSE plural

\* Lines 215-223: the columns of the first pass, and their instruments in
\* the order of first appearance.
ItemColumns(columns) ==
    {c \in Range(columns) :
        /\ c # PARTICIPANT_ID_COL
        /\ is_item_column(c)
        /\ infer_instrument_from_item(c) # <<>>}

Instruments(columns) ==
    Unique(SelectSeq([i \in DOMAIN columns |->
                         IF columns[i] \in ItemColumns(columns)
                         THEN infer_instrument_from_item(columns[i]) ELSE <<>>],
                     LAMBDA inst : inst # <<>>))

\* build_instrument_groups (lines 202-261).
build_instrument_groups(columns) ==
    LET instruments == Instruments(columns)
        items == ItemColumns(columns)
        others == {c \in Range(columns) \ items : c # PARTICIPANT_ID_COL}
        complete == {c \in others : has_complete(c)}
        assigned == [c \in others \ complete |-> assign_non_item_column(c, instruments)]
    IN  [instrument_to_columns |->
            [inst \in Range(instruments) |->
                [item_columns |-> {c \in items : infer_instrument_from_item(c) = inst},
                 other_columns |-> {c \in DOMAIN assigned : assigned[c] = inst}]],
         leftover |-> complete \cup {c \in DOMAIN assigned : assigned[c] = <<>>}]

SsrColumns ==
    {<<"aces", "1">>, <<"aces", "2">>, <<"aces", "flag">>, <<"ace", "flag">>,
     <<"aces", "complete">>, <<"aces", "Complete">>, <<"phq", "9">>,
     <<"phq", "9", "complete">>, <<"demographics", "complete">>, <<"timestamp">>}

\* Headers without a repeated column.
SsrHeaders ==
    {h \in SeqsUpTo(SsrColumns, MaxCols) : \A i, j \in DOMAIN h : h[i] = h[j] => i = j}

OutFile(name) == [dir |-> <<<<"out">>>>, name |-> name \o <<".tsv">>]
MiscFile == OutFile(<<"misc">>)

InitSSR ==
    /\ script = "separate_self_reports"
    /\ args \in [input_exists : BOOLEAN, no_misc : BOOLEAN,
                 columns : {<<PARTICIPANT_ID_COL>> \o h : h \in SsrHeaders} \cup {<<>>}]
    /\ dry_run = FALSE
    /\ run = 1
    /\ pc = "start"
    /\ fs = <<>>
    /\ fs0 = fs
    /\ warned = {}
    /\ printed = {}
    /\ writes = {}
    /\ RRIdle
    /\ todo = <<>>
    /\ results = <<>>
    /\ report = <<>>

\* main, lines 273-286: the two early returns and build_instrument_groups.
SSR_Groups ==
    /\ script = "separate_self_reports"
    /\ pc = "start"
    /\ IF ~args.input_exists
       THEN /\ warned' = {"Input TSV not found"}
            /\ pc' = "error"
            /\ results' = results
       ELSE IF args.columns = <<>>
       THEN /\ warned' = {"Input TSV has no header."}
            /\ pc' = "error"
            /\ results' = results
       ELSE /\ warned' = warned
            /\ pc' = "grouped"
            /\ results' = build_instrument_groups(args.columns)
    /\ UNCHANGED <<script, args, dry_run, run, fs, fs0, printed, writes, walk,
                   core_plans, all_plans, applied, rel_map, upd_log, dry_report,
                   todo, report>>

\* main, lines 288-337: the headers, and the files written.  The entry of
\* outputs for misc.tsv replaces that of an instrument named "misc".
SSR_Write ==
    /\ script = "separate_self_reports"
    /\ pc = "grouped"
    /\ LET groups == results.instrument_to_columns
           misc == results.leftover # {} /\ ~args.no_misc
           files == {OutFile(inst) : inst \in DOMAIN groups}
                    \cup (IF misc THEN {MiscFile} ELSE {})
       IN  /\ fs' = [p \in files |->
                       IF misc /\ p = MiscFile
                       THEN [header |-> {PARTICIPANT_ID_COL} \cup results.leftover]
                       ELSE LET inst == CHOOSE i \in DOMAIN groups : OutFile(i) = p
                            IN  [header |-> {PARTICIPANT_ID_COL}
                                            \cup groups[inst].item_columns
                                            \cup groups[inst].other_columns]]
           /\ writes' = files
    /\ pc' = "done"
    /\ UNCHANGED <<script, args, dry_run, run, fs0, warned, printed, walk,
                   core_plans, all_plans, applied, rel_map, upd_log, dry_report,
                   todo, results, report>>

NextSSR == SSR_Groups \/ SSR_Write

SpecSSR == InitSSR /\ [][NextSSR]_vars

C24_Complete(column) == \E i \in DOMAIN column : column[i] \in {"complete", "Complete"}

\* C24: in 03_separate_self_reports no column whose name contains
\* "complete" (case-insensitive) is included in any instrument TSV; every
\* such column is written to misc.tsv instead (unless --no-misc is given),
\* for every input header.
C24_CompleteGoesToMisc ==
    (script = "separate_self_reports" /\ pc = "done") =>
        \A c \in Range(args.columns) :
            C24_Complete(c) =>
                /\ \A p \in DOMAIN fs \ {MiscFile} : c \notin fs[p].header
                /\ ~args.no_misc => (Exists(fs, MiscFile) /\ c \in fs[MiscFile].header)

\* The part of C24 the code does satisfy: a "complete" column none of whose
\* tokens starts with a digit is in no instrument TSV and is in misc.tsv.
C24_NonItemCompleteGoesToMisc ==
    (script = "separate_self_reports" /\ pc = "done") =>
        \A c \in Range(args.columns) :
            (C24_Complete(c) /\ ~\E i \in DOMAIN c : StartsWithDigit(c[i])) =>
                /\ \A p \in DOMAIN fs \ {MiscFile} : c \notin fs[p].header
                /\ ~args.no_misc => (Exists(fs, MiscFile) /\ c \in fs[MiscFile].header)

\* aces_complete is in misc.tsv and not in aces.tsv.
C24_AcesCompleteInMisc ==
    /\ script = "separate_self_reports"
    /\ pc = "done"
    /\ Exists(fs, OutFile(<<"aces">>))
    /\ <<"aces", "complete">> \notin fs[OutFile(<<"aces">>)].header
    /\ <<"aces", "flag">> \in fs[OutFile(<<"aces">>)].header
    /\ Exists(fs, MiscFile)
    /\ <<"aces", "complete">> \in fs[MiscFile].header

\* phq_9_complete is an item column of phq.tsv.
C24_CompleteInInstrument ==
    /\ script = "separate_self_reports"
    /\ pc = "done"
    /\ ~args.no_misc
    /\ Exists(fs, OutFile(<<"phq">>))
    /\ <<"phq", "9", "complete">> \in fs[OutFile(<<"phq">>)].header

(***************************************************************************)
(* fix_run_rec_entities.py: the order of rec- and run-  (C25)              *)
(***************************************************************************)
C25_At(name, toks) == MinOf({i \in DOMAIN name : name[i] \in toks})

C25_Has(name, toks) == \E i \in DOMAIN name : name[i] \in toks

C25_Others(name) == SelectSeq(name, LAMBDA t : t \notin RunToks \cup RecToks)

C25_RunBeforeRec(name) ==
    /\ C25_Has(name, RunToks)
    /\ C25_Has(name, RecToks)
    /\ C25_At(name, RunToks) < C25_At(name, RecToks)

C25_Planned == script = "fix_run_rec_entities" /\ pc \in {"planned", "done", "crashed"}

\* What holds of every planned rename, with Placed(dst) telling where the
\* rec- entity has to be.
C25_Reordered(Placed(_)) ==
    /\ \A k \in DOMAIN todo :
          LET src == todo[k].src.name
              dst == todo[k].dst.name
          IN  /\ is_anat_path(todo[k].src)
              /\ C25_RunBeforeRec(src)
              /\ C25_Has(dst, RunToks) /\ C25_Has(dst, RecToks)
              /\ Placed(dst)
              /\ C25_Others(dst) = C25_Others(src)
              /\ dst[C25_At(dst, RunToks)] = src[C25_At(src, RunToks)]
              /\ dst[C25_At(dst, RecToks)] = src[C25_At(src, RecToks)]
              /\ todo[k].dst.dir = todo[k].src.dir
              \* the reordering applied to its own output
              /\ reorder_run_rec(frr_split_name_suffix(dst)[1]) = <<>>
    /\ \A p \in DOMAIN fs0 :
          ~C25_RunBeforeRec(p.name) => \A k \in DOMAIN todo : todo[k].src # p

\* C25: fix_run_rec_entities renames an anat file whose name has the run-
\* entity before the rec- entity so that the rec- entity comes immediately
\* before the run- entity, with every other part of the name unchanged; a
\* name that lacks either entity or already has rec- before run- is not
\* renamed, so applying the reordering to its own output changes nothing.
C25_RecImmediatelyBeforeRun ==
    C25_Planned =>
        C25_Reordered(LAMBDA dst : C25_At(dst, RecToks) + 1 = C25_At(dst, RunToks))

\* The part of C25 the code does satisfy: the rec- entity takes the place of
\* the run- entity and comes before it, what stood between them stays
\* between them.
C25_RecBeforeRun ==
    C25_Planned =>
        C25_Reordered(LAMBDA dst : C25_At(dst, RecToks) < C25_At(dst, RunToks))

\* A file with run-1_rec-norm is planned to become rec-norm_run-1.
C25_SwapPlanned ==
    /\ C25_Planned
    /\ \E k \in DOMAIN todo :
          /\ todo[k].src.name = AnatName(<<"_run-1", "_rec-norm">>, NIIGZ)
          /\ todo[k].dst.name = AnatName(<<"_rec-norm", "_run-1">>, NIIGZ)

\* A file with run-1_acq-hi_rec-norm is planned to become
\* rec-norm_acq-hi_run-1.
C25_AcqStaysBetween ==
    /\ C25_Planned
    /\ \E k \in DOMAIN todo :
          /\ todo[k].src.name = AnatName(<<"_run-1", "_acq-hi", "_rec-norm">>, NIIGZ)
          /\ todo[k].dst.name = AnatName(<<"_rec-norm", "_acq-hi", "_run-1">>, NIIGZ)

(***************************************************************************)
(* fix_run_rec_entities.py: an image and its JSON sidecar  (C28)           *)
(***************************************************************************)
C28_Stem(p) == frr_split_name_suffix(p.name)[1]

C28_Images(f) == {p \in DOMAIN f : frr_split_name_suffix(p.name)[2] \in {NII, NIIGZ}}

\* The JSON file of the tree that has the stem and the directory of p.
C28_HasSidecar(f, p) == Exists(f, with_name(p, C28_Stem(p) \o JSON))

\* The image at q after the run is the file that was at p before the run.
C28_CameFrom(q, p) == fs[q].orig = p

\* C28: in a non-dry run of fix_run_rec_entities an image and its JSON
\* sidecar are renamed together or not at all, so that after the run every
\* image that had a sidecar under its stem still has its own sidecar under
\* its stem.
C28_RenamedTogether ==
    (script = "fix_run_rec_entities" /\ ~dry_run /\ run = 1 /\ pc \in {"done", "crashed"}) =>
        \A q \in C28_Images(fs) :
            LET p == fs[q].orig
            IN  C28_HasSidecar(fs0, p) =>
                    /\ C28_HasSidecar(fs, q)
                    /\ fs[with_name(q, C28_Stem(q) \o JSON)].orig
                           = with_name(p, C28_Stem(p) \o JSON)

\* The case that breaks C28: the image stayed where it was because its
\* destination existed, and its sidecar was renamed away from it.
C28_SidecarLeftImage ==
    /\ script = "fix_run_rec_entities" /\ ~dry_run /\ run = 1 /\ pc = "done"
    /\ \E q \in C28_Images(fs) :
         /\ fs[q].orig = q
         /\ C28_HasSidecar(fs0, q)
         /\ ~C28_HasSidecar(fs, q)
         /\ [kind |-> "skipping file", src |-> q,
             dst |-> with_name(q, reorder_run_rec(C28_Stem(q)) \o frr_split_name_suffix(q.name)[2])]
                \in warned

(***************************************************************************)
(* remove_run_and_fix_intendedfor.py: datasets without session directories *)
(* (C26)                                                                   *)
(***************************************************************************)
\* The planned NIfTI renames of files at <root>/sub-X/<datatype>/<name>.
C26_NoSessionPlans ==
    {i \in DOMAIN core_plans :
        /\ IsNifti(core_plans[i].src.name)
        /\ Len(core_plans[i].src.dir) = 2
        /\ StartsWithSub(core_plans[i].src.dir[1])
        /\ ~StartsWithSes(core_plans[i].src.dir[2])}

\* C26: for a file at <root>/sub-X/<datatype>/<name> with no ses- directory,
\* subject_and_session_from_path returns subject 'sub-X' and session None,
\* the renamed NIfTI enters the IntendedFor map under its subject-relative
\* path, and the fmap JSONs under <root>/sub-X/fmap are visited by the
\* IntendedFor update.
C26_NoSessionSupported ==
    (script = "remove_run" /\ pc = "done") =>
        \A i \in C26_NoSessionPlans :
            LET src == core_plans[i].src
                dst == core_plans[i].dst
                subject == src.dir[1]
            IN  /\ subject_and_session_from_path(src) = <<subject, None>>
                /\ RelTo(src, subject) \in DOMAIN rel_map
                /\ rel_map[RelTo(src, subject)] = RelTo(dst, subject)
                /\ list_fmap_jsons_for_session(fs, subject, None) \subseteq DOMAIN upd_log

\* The same statement holds of the files below a ses- directory.
C26_SessionSupported ==
    (script = "remove_run" /\ pc = "done") =>
        \A i \in DOMAIN core_plans :
            LET src == core_plans[i].src
                dst == core_plans[i].dst
            IN  (IsNifti(src.name) /\ Len(src.dir) = 3 /\ StartsWithSes(src.dir[2])) =>
                    /\ subject_and_session_from_path(src) = <<src.dir[1], src.dir[2]>>
                    /\ RelTo(src, src.dir[1]) \in DOMAIN rel_map
                    /\ rel_map[RelTo(src, src.dir[1])] = RelTo(dst, src.dir[1])
                    /\ list_fmap_jsons_for_session(fs, src.dir[1], src.dir[2])
                           \subseteq DOMAIN upd_log

\* The case that breaks C26: an image without session directory was renamed,
\* the file name was taken for the subject, the map is empty and the
\* fieldmap JSON of the subject was not visited.
C26_NoSessionIgnored ==
    /\ script = "remove_run" /\ pc = "done" /\ ~dry_run
    /\ \E i \in C26_NoSessionPlans :
         /\ subject_and_session_from_path(core_plans[i].src) = <<core_plans[i].src.name, None>>
         /\ core_plans[i].dst \in writes
    /\ rel_map = <<>>
    /\ \E j \in DOMAIN fs : j.dir = <<Sub, <<"fmap">>>> /\ j \notin DOMAIN upd_log

(***************************************************************************)
(* remove_run_and_fix_intendedfor.py: an image and its sidecars  (C27)     *)
(***************************************************************************)
\* The sidecar path with extension number k of the image at p.
C27_Sidecar(p, k) == with_name(p, split_name_suffix(p.name)[1] \o SidecarExts[k])

\* The NIfTI renames the run carried out.
C27_RenamedImages == {i \in DOMAIN applied : IsNifti(applied[i].src.name)}

\* C27: after a non-dry run of remove_run_and_fix_intendedfor, whatever the
\* traversal order, for every renamed NIfTI each sidecar found at the
\* destination stem was the sidecar of that same NIfTI before the run.
C27_SidecarsStayPaired ==
    (script = "remove_run" /\ ~dry_run /\ pc \in {"renamed", "done"}) =>
        \A i \in C27_RenamedImages : \A k \in DOMAIN SidecarExts :
            Exists(fs, C27_Sidecar(applied[i].dst, k)) =>
                fs[C27_Sidecar(applied[i].dst, k)].orig = C27_Sidecar(applied[i].src, k)

\* The case that breaks C27: the run-1 image was renamed and the JSON found
\* beside it is the sidecar of the run-2 image, whose own rename collided.
C27_PairedWithOtherRun ==
    /\ script = "remove_run" /\ ~dry_run /\ pc = "done"
    /\ \E i \in C27_RenamedImages :
         LET sc == C27_Sidecar(applied[i].dst, 1)
         IN  /\ Exists(fs, sc)
             /\ fs[sc].orig # C27_Sidecar(applied[i].src, 1)
             /\ RUN_TOKEN_RE_search(fs[sc].orig.name)
             /\ Exists(fs, C27_Sidecar(applied[i].src, 1))
             /\ \E w \in warned :
                  /\ w.kind = "plan-collision" /\ IsNifti(w.src.name)
                  /\ C27_Sidecar(w.src, 1) = fs[sc].orig

\* With the images walked before every other file, a renamed image that had
\* a sidecar keeps it unless a file already stood at the destination.
C27_PairedWhenImagesFirst ==
    (/\ script = "remove_run" /\ ~dry_run /\ pc \in {"renamed", "done"}
     /\ \A a, b \in DOMAIN walk :
            (IsNifti(walk[b].name) /\ ~IsNifti(walk[a].name)) => b < a) =>
        \A i \in C27_RenamedImages : \A k \in DOMAIN SidecarExts :
            (/\ Exists(fs, C27_Sidecar(applied[i].dst, k))
             /\ Exists(fs0, C27_Sidecar(applied[i].src, k))
             /\ ~Exists(fs0, C27_Sidecar(applied[i].dst, k))) =>
                fs[C27_Sidecar(applied[i].dst, k)].orig = C27_Sidecar(applied[i].src, k)

(***************************************************************************)
(* rm_runentity_intendedfor.py: the IntendedFor entries that change (C30)  *)
(***************************************************************************)
\* The renames of the rows processed so far.
C30_Moved == UNION {results[k].moved : k \in DOMAIN results}

\* The fieldmap JSONs that carry an IntendedFor list, before and now.
C30_FmapJsons ==
    {j \in DOMAIN fs \cap DOMAIN fs0 :
        /\ j.dir = RmDir("fmap") /\ EndsWith(j.name, JSON)
        /\ fs0[j].top = "dict" /\ fs0[j].has}

\* C30: in rm_runentity_intendedfor, after any sequence of processed rows,
\* an IntendedFor entry differs from what it was only if it referenced a
\* renamed file, and then it names that file's new path; entries of other
\* files are unchanged, so that every entry whose file existed names a file
\* that exists.
C30_OnlyRenamedEntriesChange ==
    (script = "rm_runentity_intendedfor" /\ pc \in {"loop", "complete", "done"}) =>
        \A j \in C30_FmapJsons : \A i \in DOMAIN fs0[j].IntendedFor :
            LET old == fs0[j].IntendedFor[i]
                new == fs[j].IntendedFor[i]
            IN  /\ new # old =>
                      \E m \in C30_Moved : RmRel(m.src) = old /\ RmRel(m.dst) = new
                /\ Exists(fs0, AbsOf(Sub, old)) => Exists(fs, AbsOf(Sub, new))

\* The case that breaks C30: only the rest series was renamed, and the
\* entry of the face series, which is still in place, lost its run entity.
C30_OtherTaskRewritten ==
    /\ script = "rm_runentity_intendedfor" /\ pc = "done"
    /\ C30_Moved = {[src |-> RmFunc("_task-rest", "_run-02", e),
                     dst |-> RmFunc("_task-rest", "", e)] : e \in {NIIGZ, JSON}}
    /\ Exists(fs, RmFunc("_task-face", "_run-02", NIIGZ))
    /\ \E i \in DOMAIN fs[RmFmap].IntendedFor :
         /\ fs0[RmFmap].IntendedFor[i] = RmRel(RmFunc("_task-face", "_run-02", NIIGZ))
         /\ fs[RmFmap].IntendedFor[i] = RmRel(RmFunc("_task-face", "", NIIGZ))
         /\ ~Exists(fs, RmFunc("_task-face", "", NIIGZ))

\* The entry of the renamed file itself is always rewritten to its new path.
C30_RenamedEntryUpdated ==
    (script = "rm_runentity_intendedfor" /\ pc \in {"loop", "complete", "done"}) =>
        \A j \in C30_FmapJsons : \A i \in DOMAIN fs0[j].IntendedFor :
            \A m \in C30_Moved :
                (IsNifti(m.src.name) /\ RmRel(m.src) = fs0[j].IntendedFor[i]
                 /\ Exists(fs, m.dst)) =>
                    fs[j].IntendedFor[i] = RmRel(m.dst)

(***************************************************************************)
(* fix_sessions.py                                                         *)
(*                                                                         *)
(* The tree is the subject directory <root>/sub-01.  fs0 is the tree as it *)
(* was when the script was last started.  A directory exists when a file   *)
(* lies below it.                                                          *)
(***************************************************************************)
\* str.replace('ses-2', 'ses-1') on one token.
ses_replace_token(t) ==
    IF t = "_ses-2" THEN "_ses-1" ELSE IF t = "ses-2" THEN "ses-1" ELSE t

\* filename.replace('ses-2', 'ses-1')
ses_replace(name) == [k \in DOMAIN name |-> ses_replace_token(name[k])]

\* item.replace('ses-2', 'ses-1') on a relative path.
ses_replace_rel(e) ==
    [dir |-> [i \in DOMAIN e.dir |-> ses_replace(e.dir[i])], name |-> ses_replace(e.name)]

\* p lies below the directory d.
Below(p, d) == Len(p.dir) >= Len(d) /\ SubSeq(p.dir, 1, Len(d)) = d

\* shutil.rmtree(d)
rmtree(f, d) == [p \in {q \in DOMAIN f : ~Below(q, d)} |-> f[p]]

\* Lines 36-47: where a file of ses-2 ends up: the directory is renamed to
\* ses-1, then every file name has 'ses-2' replaced.
fs_new_path(p, ses1_path, ses2_path) ==
    IF Below(p, ses2_path)
    THEN [dir |-> ses1_path \o SubSeq(p.dir, Len(ses2_path) + 1, Len(p.dir)),
          name |-> ses_replace(p.name)]
    ELSE p

\* Lines 64-75: the content written to a fieldmap JSON that was loaded.
fs_update_json(c) ==
    IF ~c.has \/ c.isNull THEN c
    ELSE [c EXCEPT !.IntendedFor = [i \in DOMAIN @ |-> ses_replace_rel(@[i])]]

\* Line 52, 54: a JSON file whose directory path holds 'fmap'.
fs_is_fmap_json(p) ==
    (\E i \in DOMAIN p.dir : p.dir[i] = <<"fmap">>) /\ EndsWith(p.name, JSON)

\* fix_sessions(subject_dir): the tree afterwards and the lines printed.
fix_sessions(f, subject_dir) ==
    LET ses1_path == <<subject_dir, <<"ses-1">>>>
        ses2_path == <<subject_dir, <<"ses-2">>>>
        f1 == IF IsDir(f, ses1_path) THEN rmtree(f, ses1_path) ELSE f
        line1 == IF IsDir(f, ses1_path) THEN "Deleting existing directory"
                 ELSE "No 'ses-1' directory exists"
        f2 == [q \in {fs_new_path(p, ses1_path, ses2_path) : p \in DOMAIN f1} |->
                 f1[CHOOSE p \in DOMAIN f1 : fs_new_path(p, ses1_path, ses2_path) = q]]
        f3 == [p \in DOMAIN f2 |->
                 IF fs_is_fmap_json(p) /\ f2[p].ok THEN fs_update_json(f2[p]) ELSE f2[p]]
    IN  IF ~IsDir(f1, ses2_path)
        THEN [fs |-> f1, printed |-> {line1, "No 'ses-2' directory found"},
              writes |-> {}]
        ELSE [fs |-> f3,
              printed |-> {line1, "Renaming", "Session conversion complete."}
                  \cup {"Unable to open" : p \in {q \in DOMAIN f2 :
                                                    fs_is_fmap_json(q) /\ ~f2[q].ok}},
              writes |-> {p \in DOMAIN f2 : fs_is_fmap_json(p) /\ f2[p].ok /\ f2[p].has}]

\* The session entity of a file name below the session directory ses.
SesTok(ses) == IF ses = "ses-1" THEN "_ses-1" ELSE "_ses-2"

\* The files of the trees: an image and a fieldmap JSON in each session.
FsImg(ses) ==
    [dir |-> <<Sub, <<ses>>, <<"func">>>>,
     name |-> <<"sub-01", SesTok(ses), "_bold">> \o NIIGZ]
FsFmap(ses) ==
    [dir |-> <<Sub, <<ses>>, <<"fmap">>>>,
     name |-> <<"sub-01", SesTok(ses), "_epi">> \o JSON]

FsRel(p) == [dir |-> Tail(p.dir), name |-> p.name]

\* The contents of a fieldmap JSON: unreadable, without IntendedFor, null,
\* a list or a string naming the image of either session.
FsFmapContents(p) ==
    {[Plain(p) EXCEPT !.ok = FALSE], Plain(p),
     [Plain(p) EXCEPT !.has = TRUE, !.isNull = TRUE],
     [Plain(p) EXCEPT !.has = TRUE, !.IntendedFor = <<>>],
     [Plain(p) EXCEPT !.has = TRUE, !.IntendedFor = <<FsRel(FsImg("ses-2"))>>],
     [Plain(p) EXCEPT !.has = TRUE, !.IntendedFor = <<FsRel(FsImg("ses-1"))>>],
     [Plain(p) EXCEPT !.has = TRUE,
                      !.IntendedFor = <<FsRel(FsImg("ses-1")), FsRel(FsImg("ses-2"))>>],
     [Plain(p) EXCEPT !.has = TRUE, !.isStr = TRUE,
                      !.IntendedFor = <<FsRel(FsImg("ses-2"))>>]}

FSTrees ==
    {a @@ b @@ c @@ d :
        a \in Opt(FsImg("ses-1"), {Plain(FsImg("ses-1"))}),
        b \in Opt(FsImg("ses-2"), {Plain(FsImg("ses-2"))}),
        c \in Opt(FsFmap("ses-1"), FsFmapContents(FsFmap("ses-1"))),
        d \in Opt(FsFmap("ses-2"), FsFmapContents(FsFmap("ses-2")))}

InitFS ==
    /\ script = "fix_sessions"
    /\ args \in {[is_dir |-> b] : b \in BOOLEAN}
    /\ dry_run = FALSE
    /\ run = 1
    /\ pc = "start"
    /\ fs \in (IF args.is_dir THEN FSTrees ELSE {<<>>})
    /\ fs0 = fs
    /\ warned = {}
    /\ printed = {}
    /\ writes = {}
    /\ RRIdle
    /\ FilesIdle

\* __main__, lines 80-85: the test of subject_dir, then fix_sessions.
FS_Main ==
    /\ script = "fix_sessions" /\ pc = "start"
    /\ IF ~args.is_dir
       THEN /\ printed' = {"Error: not a valid directory"}
            /\ pc' = "error"
            /\ UNCHANGED <<fs, writes>>
       ELSE LET r == fix_sessions(fs, Sub)
            IN  /\ fs' = r.fs
                /\ printed' = r.printed
                /\ writes' = r.writes
                /\ pc' = "done"
    /\ fs0' = fs
    /\ UNCHANGED <<script, args, dry_run, run, warned, rrVars, fileVars>>

\* The operator starts the script again on the same subject directory.
FS_RunAgain ==
    /\ script = "fix_sessions" /\ pc = "done" /\ run = 1
    /\ run' = 2
    /\ pc' = "start"
    /\ printed' = {}
    /\ writes' = {}
    /\ UNCHANGED <<script, args, dry_run, fs, fs0, warned, rrVars, fileVars>>

NextFS == FS_Main \/ FS_RunAgain

SpecFS == InitFS /\ [][NextFS]_vars

(***************************************************************************)
(* fix_sessions.py: when ses-1 is deleted  (C29)                           *)
(***************************************************************************)
C29_Ses1 == <<Sub, <<"ses-1">>>>
C29_Ses2 == <<Sub, <<"ses-2">>>>

C29_Ran == script = "fix_sessions" /\ pc = "done"

\* C29: fix_sessions deletes the ses-1 directory only when a ses-2 directory
\* exists to replace it: when ses-2 is absent the subject directory is left
\* as it was, so a second run on a converted subject keeps the converted
\* ses-1 data.
C29_DeletesOnlyWhenReplaced ==
    C29_Ran =>
        /\ (\E p \in DOMAIN fs0 : Below(p, C29_Ses1) /\ (p \notin DOMAIN fs \/ fs[p] # fs0[p]))
               => IsDir(fs0, C29_Ses2)
        /\ ~IsDir(fs0, C29_Ses2) => fs = fs0

\* The case that breaks C29: the second run found the converted ses-1 (its
\* files came from ses-2) and no ses-2, and the subject directory is empty
\* afterwards.
C29_ConvertedDataDeleted ==
    /\ C29_Ran /\ run = 2
    /\ ~IsDir(fs0, C29_Ses2)
    /\ \E p \in DOMAIN fs0 : Below(p, C29_Ses1) /\ Below(fs0[p].orig, C29_Ses2)
    /\ fs = <<>>
    /\ "No 'ses-2' directory found" \in printed

\* When ses-2 exists, ses-1 afterwards holds exactly the files of ses-2
\* under their ses-1 names, and ses-2 is gone.
C29_Ses2ReplacesSes1 ==
    (C29_Ran /\ IsDir(fs0, C29_Ses2)) =>
        /\ ~IsDir(fs, C29_Ses2)
        /\ DOMAIN fs = {fs_new_path(p, C29_Ses1, C29_Ses2) :
                            p \in {q \in DOMAIN fs0 : Below(q, C29_Ses2)}}
        /\ \A p \in DOMAIN fs0 :
              Below(p, C29_Ses2) =>
                  fs[fs_new_path(p, C29_Ses1, C29_Ses2)].orig = fs0[p].orig

====
